---------------------------- MODULE Spec2Model ----------------------------
(* A model of automation/autonomous_developer.py: the issue selector      *)
(* (_select_priority_issue) and the development cycle that calls it       *)
(* (run_development_cycle).  Strings that the code inspects character by  *)
(* character (label names, oracle replies) are sequences of one-character *)
(* strings, so that lower-casing and the search for the first integer are *)
(* computed, not assumed.                                                 *)
EXTENDS Integers, Sequences, FiniteSets, TLC

(* ---------------------------------------------------------------------- *)
(* Label names                                                            *)
(* ---------------------------------------------------------------------- *)
L_3am_ready == <<"3", "a", "m", "-", "r", "e", "a", "d", "y">>
L_autonomous_ready == <<"a", "u", "t", "o", "n", "o", "m", "o", "u", "s", "-", "r", "e", "a", "d", "y">>
L_autonomous_created == <<"a", "u", "t", "o", "n", "o", "m", "o", "u", "s", "-", "c", "r", "e", "a", "t", "e", "d">>
L_roadmap == <<"r", "o", "a", "d", "m", "a", "p">>
L_backlog == <<"b", "a", "c", "k", "l", "o", "g">>
L_quick_win == <<"q", "u", "i", "c", "k", "-", "w", "i", "n">>
L_good_first_issue == <<"g", "o", "o", "d", " ", "f", "i", "r", "s", "t", " ", "i", "s", "s", "u", "e">>
L_bug == <<"b", "u", "g">>
L_wontfix == <<"w", "o", "n", "t", "f", "i", "x">>
L_invalid == <<"i", "n", "v", "a", "l", "i", "d">>
L_duplicate == <<"d", "u", "p", "l", "i", "c", "a", "t", "e">>
L_blocked == <<"b", "l", "o", "c", "k", "e", "d">>
L_enhancement == <<"e", "n", "h", "a", "n", "c", "e", "m", "e", "n", "t">>
(* the same names in other casings, as a remote may hold them *)
U_Bug == <<"B", "u", "g">>
U_WONTFIX == <<"W", "O", "N", "T", "F", "I", "X">>
U_Autonomous_Created == <<"A", "u", "t", "o", "n", "o", "m", "o", "u", "s", "-", "C", "r", "e", "a", "t", "e", "d">>
U_3AM_Ready == <<"3", "A", "M", "-", "R", "e", "a", "d", "y">>
U_Blocked == <<"B", "l", "o", "c", "k", "e", "d">>

LabelNames ==
  { L_3am_ready, L_autonomous_ready, L_autonomous_created, L_roadmap,
    L_backlog, L_quick_win, L_good_first_issue, L_bug, L_wontfix,
    L_invalid, L_duplicate, L_blocked, L_enhancement,
    U_Bug, U_WONTFIX, U_Autonomous_Created, U_3AM_Ready, U_Blocked }

(* ---------------------------------------------------------------------- *)
(* str.lower()                                                            *)
(* ---------------------------------------------------------------------- *)
UpperChars == <<"A", "B", "C", "D", "E", "F", "G", "H", "I", "J", "K", "L", "M", "N", "O", "P", "Q", "R", "S", "T", "U", "V", "W", "X", "Y", "Z">>
LowerChars == <<"a", "b", "c", "d", "e", "f", "g", "h", "i", "j", "k", "l", "m", "n", "o", "p", "q", "r", "s", "t", "u", "v", "w", "x", "y", "z">>

(* upper-case letter -> lower-case letter *)
LowerOfUpper ==
  [c \in { UpperChars[i] : i \in 1..Len(UpperChars) } |->
     LowerChars[CHOOSE i \in 1..Len(UpperChars) : UpperChars[i] = c]]

(* every other character is left as it is *)
LowerChar(c) == IF c \in DOMAIN LowerOfUpper THEN LowerOfUpper[c] ELSE c

Lower(s) == [i \in 1..Len(s) |-> LowerChar(s[i])]

(* ---------------------------------------------------------------------- *)
(* Small helpers                                                          *)
(* ---------------------------------------------------------------------- *)
Min(a, b) == IF a <= b THEN a ELSE b

(* Python's seq[:n] *)
Take(s, n) == SubSeq(s, 1, Min(n, Len(s)))

Range(s) == { s[i] : i \in 1..Len(s) }

(* Python's None where an issue is expected; real issue numbers are >= 1 *)
NoIssue == [number |-> 0, labels |-> {}]

(* ---------------------------------------------------------------------- *)
(* _select_priority_issue: filter, score, sort, shortlist                 *)
(* ---------------------------------------------------------------------- *)
CheckTop == 15
ShortlistSize == 5

BlockingLabels == { L_wontfix, L_invalid, L_duplicate, L_blocked }

(* labels = [label.name.lower() for label in issue.labels] *)
LoweredLabels(issue) == { Lower(l) : l \in issue.labels }

(* all() where the code has any() *)
IsBlocked_mutant(labels) == \A x \in BlockingLabels : x \in labels

(* any(x in labels for x in ['wontfix', 'invalid', 'duplicate', 'blocked']) *)
IsBlocked(labels) == \E x \in BlockingLabels : x \in labels

(* the five tests chained with elif: only the first match counts *)
PriorityScore_mutant(labels) ==
  IF L_3am_ready \in labels \/ L_autonomous_ready \in labels THEN 100
  ELSE IF L_autonomous_created \in labels THEN 90
  ELSE IF L_roadmap \in labels \/ L_backlog \in labels THEN 50
  ELSE IF L_quick_win \in labels \/ L_good_first_issue \in labels THEN 25
  ELSE IF L_bug \in labels THEN 10
  ELSE 0

PriorityScore(labels) ==
    (IF L_3am_ready \in labels \/ L_autonomous_ready \in labels THEN 100 ELSE 0)
  + (IF L_autonomous_created \in labels THEN 90 ELSE 0)
  + (IF L_roadmap \in labels \/ L_backlog \in labels THEN 50 ELSE 0)
  + (IF L_quick_win \in labels \/ L_good_first_issue \in labels THEN 25 ELSE 0)
  + (IF L_bug \in labels THEN 10 ELSE 0)

(* the loop over issues[:15]: blocked issues are skipped, every other one *)
(* is appended as (priority_score, issue)                                 *)
RECURSIVE ScoreLoop(_)
ScoreLoop(s) ==
  IF s = <<>> THEN <<>>
  ELSE LET issue == Head(s)
           labels == LoweredLabels(issue)
       IN IF IsBlocked(labels)
          THEN ScoreLoop(Tail(s))
          ELSE <<[score |-> PriorityScore(labels), issue |-> issue]>>
               \o ScoreLoop(Tail(s))

(* the loop run over the whole list instead of issues[:15] *)
SuitableIssues_mutant(issueList) == ScoreLoop(issueList)

SuitableIssues(issueList) == ScoreLoop(Take(issueList, CheckTop))

(* a sort that is not stable: an entry goes before the entries of equal score *)
RECURSIVE InsertByScore_mutant(_, _)
InsertByScore_mutant(x, sorted) ==
  IF sorted = <<>> THEN <<x>>
  ELSE IF Head(sorted).score > x.score
       THEN <<Head(sorted)>> \o InsertByScore_mutant(x, Tail(sorted))
       ELSE <<x>> \o sorted

(* list.sort(reverse=True, key=score): a stable sort, so entries of equal *)
(* score keep their relative order.  Insert x after every entry whose     *)
(* score is >= x's score.                                                 *)
RECURSIVE InsertByScore(_, _)
InsertByScore(x, sorted) ==
  IF sorted = <<>> THEN <<x>>
  ELSE IF Head(sorted).score >= x.score
       THEN <<Head(sorted)>> \o InsertByScore(x, Tail(sorted))
       ELSE <<x>> \o sorted

RECURSIVE SortByScore(_)
SortByScore(s) ==
  IF s = <<>> THEN <<>>
  ELSE InsertByScore(s[Len(s)], SortByScore(SubSeq(s, 1, Len(s) - 1)))

(* top_issues = [issue for score, issue in suitable_issues[:5]] *)
TopIssues(sortedSuitable) ==
  LET cut == Take(sortedSuitable, ShortlistSize)
  IN [i \in 1..Len(cut) |-> cut[i].issue]

(* for issue in top_issues: if 'autonomous-created' in labels: return issue *)
HasAutonomousCreated(issue) == L_autonomous_created \in LoweredLabels(issue)

(* the loop that prefers an autonomous-created issue left out *)
FirstAutonomousCreated_mutant(top) == NoIssue

FirstAutonomousCreated(top) ==
  IF \E i \in 1..Len(top) : HasAutonomousCreated(top[i])
  THEN top[CHOOSE i \in 1..Len(top) :
             /\ HasAutonomousCreated(top[i])
             /\ \A j \in 1..(i - 1) : ~HasAutonomousCreated(top[j])]
  ELSE NoIssue

(* ---------------------------------------------------------------------- *)
(* The oracle's reply and int(re.search(r'\d+', response).group())        *)
(* ---------------------------------------------------------------------- *)
Digits == <<"0", "1", "2", "3", "4", "5", "6", "7", "8", "9">>

IsDigit(c) == \E i \in 1..Len(Digits) : Digits[i] = c

DigitValue(c) == (CHOOSE i \in 1..Len(Digits) : Digits[i] = c) - 1

HasDigits(text) == \E i \in 1..Len(text) : IsDigit(text[i])

(* position of the first digit, and of the last digit of the run it starts *)
FirstDigitPos(text) ==
  CHOOSE i \in 1..Len(text) :
    /\ IsDigit(text[i])
    /\ \A j \in 1..(i - 1) : ~IsDigit(text[j])

RunEnd(text, from) ==
  CHOOSE e \in from..Len(text) :
    /\ \A k \in from..e : IsDigit(text[k])
    /\ (e = Len(text) \/ ~IsDigit(text[e + 1]))

RECURSIVE DecimalValue(_)
DecimalValue(ds) ==
  IF ds = <<>> THEN 0
  ELSE 10 * DecimalValue(SubSeq(ds, 1, Len(ds) - 1)) + DigitValue(ds[Len(ds)])

(* defined only when HasDigits(text); re.search returns None otherwise and *)
(* .group() raises                                                         *)
FirstInteger(text) ==
  LET b == FirstDigitPos(text)
  IN DecimalValue(SubSeq(text, b, RunEnd(text, b)))

(* what anthropic.messages.create gives back: it raises, or it returns text *)
OracleRaise == [kind |-> "raise", text |-> <<>>]
OracleText(t) == [kind |-> "reply", text |-> t]
NoOracle == [kind |-> "none", text |-> <<>>]

(* the number of the reply used as a position in the shortlist *)
OracleChoice_mutant(top, outcome) ==
  IF outcome.kind = "raise" \/ ~HasDigits(outcome.text)
  THEN IF top # <<>> THEN top[1] ELSE NoIssue
  ELSE LET issue_num == FirstInteger(outcome.text)
       IN IF issue_num \in 1..Len(top) THEN top[issue_num] ELSE top[1]

(* the tail of _select_priority_issue, from the oracle call on *)
OracleChoice(top, outcome) ==
  IF outcome.kind = "raise" \/ ~HasDigits(outcome.text)
  THEN (* except Exception: return top_issues[0] if top_issues else None *)
       IF top # <<>> THEN top[1] ELSE NoIssue
  ELSE LET issue_num == FirstInteger(outcome.text)
       IN IF \E i \in 1..Len(top) : top[i].number = issue_num
          THEN top[CHOOSE i \in 1..Len(top) :
                     /\ top[i].number = issue_num
                     /\ \A j \in 1..(i - 1) : top[j].number # issue_num]
          ELSE top[1]


(* ---------------------------------------------------------------------- *)
(* State                                                                  *)
(* ---------------------------------------------------------------------- *)
VARIABLES
  pc,               \* position of run_development_cycle
  project,          \* 'whatsapp' or 'healthos'
  cache,            \* ~/.automation-cache/repos/<repo>: "absent" or "complete"
  clone_path,       \* which branch of _quick_clone ran: "none", "update", "first"
  remote_issues,    \* open issues of the remote repository
  remote_labels,    \* label names defined in the remote repository
  issues,           \* local 'issues' of the cycle = argument of select
  suitable_issues,  \* select's (priority_score, issue) list, sorted
  top_issues,       \* select's shortlist
  shown,            \* the shortlist as written into the oracle prompt
  oracle_reply,     \* what the selection oracle call gave back
  selected_issue,   \* value returned by select
  workspace,        \* the full-clone working tree: "absent", "partial", "ready"
  ws_prepared,      \* _prepare_workspace returned in this cycle
  tree,             \* files of the working tree
  gen_outcome,      \* what happened inside _generate_solution
  solution,         \* value returned by _generate_solution
  applied,          \* number of ChangeOps carried out by _apply_changes
  test_outcome,     \* how the test command ended
  test_passed,      \* test_results['passed']
  branch_created, committed, pushed, pr_created, docs_updated,
  synth_trace,      \* the call of _create_issue_from_backlog: its inputs and what it returned
  apply_trace,      \* the tree before and after the last _apply_changes, and its result
  heap,             \* the dicts of the last deep_merge call
  existing_content, \* address of the decoded file, first argument of .copy()
  changes,          \* address of the decoded overlay
  merged,           \* address of the dict deep_merge returned
  merge_log,        \* calls of _apply_modification_smart so far
  github_token,     \* os.getenv('GITHUB_TOKEN') as main() reads it
  anthropic_api_key,\* os.getenv('ANTHROPIC_API_KEY') as main() reads it
  argv,             \* sys.argv
  developer,        \* an AutonomousDeveloper has been constructed
  cycles_run,       \* calls of run_development_cycle so far
  exit_code,        \* status the process exited with, NotExited before
  response_text,    \* the oracle's reply as the parsing lines receive it
  decoded,          \* what json.loads made of it
  docs,             \* the planning documents of the cached clone
  priorities,       \* value returned by _load_project_priorities
  clone_log,        \* the last call of _quick_clone: branch, failing step, entry before
  docs_outcome,     \* how the git commands of _update_project_docs ended
  stages,           \* stages entered so far, in order
  result,           \* the dict returned by run_development_cycle
  raised            \* an exception left run_development_cycle

selectVars == <<issues, suitable_issues, top_issues, shown, oracle_reply, selected_issue>>

remoteVars == <<remote_issues, remote_labels>>

workVars == <<workspace, ws_prepared, tree, gen_outcome, solution, applied, test_outcome,
              test_passed>>

gitVars == <<branch_created, committed, pushed, pr_created, docs_updated>>

mergeVars == <<heap, existing_content, changes, merged, merge_log>>

cliVars == <<github_token, anthropic_api_key, argv, developer, cycles_run, exit_code>>

parseVars == <<response_text, decoded>>

loadVars == <<docs, priorities>>

lateVars == <<cliVars, parseVars, loadVars, clone_log, docs_outcome>>

vars == <<pc, project, cache, clone_path, remoteVars, selectVars, workVars, gitVars,
          stages, result, raised, synth_trace, apply_trace, mergeVars, lateVars>>

(* ---------------------------------------------------------------------- *)
(* select as two steps: up to the oracle call, and from its outcome on    *)
(* ---------------------------------------------------------------------- *)
(* _select_priority_issue, lines 610-645 and the prompt of 647-669 *)
SelectBegin ==
  /\ pc = "select"
  /\ LET sorted == SortByScore(SuitableIssues(issues))
         top == TopIssues(sorted)
         own == FirstAutonomousCreated(top)
     IN /\ suitable_issues' = sorted
        /\ top_issues' = top
        /\ IF sorted = <<>>
           THEN /\ selected_issue' = NoIssue
                /\ shown' = <<>>
                /\ pc' = "selected"
           ELSE IF own # NoIssue
                THEN /\ selected_issue' = own
                     /\ shown' = <<>>
                     /\ pc' = "selected"
                ELSE /\ selected_issue' = NoIssue
                     /\ shown' = top
                     /\ pc' = "select_oracle"
  /\ stages' = Append(stages, "select")
  /\ UNCHANGED <<lateVars, mergeVars, apply_trace, synth_trace, project, cache, clone_path, remoteVars, issues, oracle_reply,
                 workVars, gitVars, result, raised>>

(* _select_priority_issue, lines 671-690 *)
SelectOracle(outcome) ==
  /\ pc = "select_oracle"
  /\ oracle_reply' = outcome
  /\ selected_issue' = OracleChoice(top_issues, outcome)
  /\ pc' = "selected"
  /\ UNCHANGED <<lateVars, mergeVars, apply_trace, synth_trace, project, cache, clone_path, remoteVars, issues, suitable_issues,
                 top_issues, shown, workVars, gitVars, stages, result, raised>>


(* ---------------------------------------------------------------------- *)
(* JSON: values, json.loads and json.dumps(obj, indent=2)                 *)
(* ---------------------------------------------------------------------- *)
(* A text is a sequence of tokens.  A decoded value is a number, a        *)
(* string, a list of values, or a dict: a sequence of (key, value) items  *)
(* in insertion order, as Python keeps it.                                *)
Num(n) == [num |-> n]
Str(s) == [str |-> s]
Arr(xs) == [arr |-> xs]
Map(items) == [map |-> items]

IsMap(v) == DOMAIN v = {"map"}
IsArr(v) == DOMAIN v = {"arr"}

Item(k, v) == [k |-> k, v |-> v]

(* key in d *)
HasKey(items, key) == \E i \in 1..Len(items) : items[i].k = key

(* d[key], defined when key in d *)
GetItem(items, key) == items[CHOOSE i \in 1..Len(items) : items[i].k = key].v

(* dict.setdefault(key, value): an existing key keeps its value *)
SetItem_mutant(items, key, value) ==
  IF HasKey(items, key) THEN items ELSE Append(items, Item(key, value))

(* d[key] = value: an existing key keeps its place, a new key goes last *)
SetItem(items, key, value) ==
  IF HasKey(items, key)
  THEN [i \in 1..Len(items) |-> IF items[i].k = key THEN Item(key, value) ELSE items[i]]
  ELSE Append(items, Item(key, value))

KeysOf(items) == { items[i].k : i \in 1..Len(items) }

(* Python's == on decoded values: dicts compare without regard to order *)
RECURSIVE PyEq(_, _)
PyEq(x, y) ==
  IF IsMap(x) /\ IsMap(y)
  THEN /\ KeysOf(x.map) = KeysOf(y.map)
       /\ \A k \in KeysOf(x.map) : PyEq(GetItem(x.map, k), GetItem(y.map, k))
  ELSE IF IsArr(x) /\ IsArr(y)
       THEN /\ Len(x.arr) = Len(y.arr)
            /\ \A i \in 1..Len(x.arr) : PyEq(x.arr[i], y.arr[i])
       ELSE x = y

KeyNames == <<"a", "b">>

Quote(s) == "\"" \o s \o "\""

StringTokens == { Quote(KeyNames[i]) : i \in 1..Len(KeyNames) }

Unquote(tok) == CHOOSE s \in Range(KeyNames) : Quote(s) = tok

NumberOf == ("0" :> 0) @@ ("1" :> 1) @@ ("2" :> 2)

Whitespace == {" ", "\n"}

RECURSIVE SkipWs(_)
SkipWs(ts) == IF ts # <<>> /\ Head(ts) \in Whitespace THEN SkipWs(Tail(ts)) ELSE ts

ParseFail == [ok |-> FALSE, val |-> Num(0), rest |-> <<>>]

Parsed(val, rest) == [ok |-> TRUE, val |-> val, rest |-> rest]

(* the decoder: one value from the front of the tokens *)
RECURSIVE ParseValue(_), ParseMembers(_, _), ParseElements(_, _)
ParseValue(ts) ==
  LET t == SkipWs(ts)
  IN IF t = <<>> THEN ParseFail
     ELSE IF Head(t) = "{"
          THEN LET u == SkipWs(Tail(t))
               IN IF u # <<>> /\ Head(u) = "}" THEN Parsed(Map(<<>>), Tail(u))
                  ELSE ParseMembers(u, <<>>)
     ELSE IF Head(t) = "["
          THEN LET u == SkipWs(Tail(t))
               IN IF u # <<>> /\ Head(u) = "]" THEN Parsed(Arr(<<>>), Tail(u))
                  ELSE ParseElements(u, <<>>)
     ELSE IF Head(t) \in DOMAIN NumberOf THEN Parsed(Num(NumberOf[Head(t)]), Tail(t))
     ELSE IF Head(t) \in StringTokens THEN Parsed(Str(Unquote(Head(t))), Tail(t))
     ELSE ParseFail

(* "key": value, then ',' and another member, or '}' *)
ParseMembers(ts, items) ==
  LET t == SkipWs(ts)
  IN IF t = <<>> \/ Head(t) \notin StringTokens THEN ParseFail
     ELSE LET u == SkipWs(Tail(t))
          IN IF u = <<>> \/ Head(u) # ":" THEN ParseFail
             ELSE LET r == ParseValue(Tail(u))
                      w == SkipWs(r.rest)
                      added == SetItem(items, Unquote(Head(t)), r.val)
                  IN IF ~r.ok \/ w = <<>> THEN ParseFail
                     ELSE IF Head(w) = "}" THEN Parsed(Map(added), Tail(w))
                     ELSE IF Head(w) = "," THEN ParseMembers(Tail(w), added)
                     ELSE ParseFail

ParseElements(ts, xs) ==
  LET r == ParseValue(ts)
      w == SkipWs(r.rest)
  IN IF ~r.ok \/ w = <<>> THEN ParseFail
     ELSE IF Head(w) = "]" THEN Parsed(Arr(Append(xs, r.val)), Tail(w))
     ELSE IF Head(w) = "," THEN ParseElements(Tail(w), Append(xs, r.val))
     ELSE ParseFail

(* json.loads(text): ok = FALSE stands for JSONDecodeError *)
Loads(text) ==
  LET r == ParseValue(text)
  IN IF r.ok /\ SkipWs(r.rest) = <<>> THEN [ok |-> TRUE, val |-> r.val]
     ELSE [ok |-> FALSE, val |-> Num(0)]

Indent(level) == [i \in 1..(2 * level) |-> " "]

(* json.dumps(value, indent=2): one member or element per line *)
RECURSIVE DumpsAt(_, _), DumpItems(_, _), DumpElements(_, _)
DumpsAt(v, level) ==
  IF IsMap(v)
  THEN IF v.map = <<>> THEN <<"{", "}">>
       ELSE <<"{">> \o DumpItems(v.map, level + 1) \o <<"\n">> \o Indent(level) \o <<"}">>
  ELSE IF IsArr(v)
  THEN IF v.arr = <<>> THEN <<"[", "]">>
       ELSE <<"[">> \o DumpElements(v.arr, level + 1) \o <<"\n">> \o Indent(level) \o <<"]">>
  ELSE IF DOMAIN v = {"num"} THEN <<ToString(v.num)>>
  ELSE <<Quote(v.str)>>

DumpItems(items, level) ==
  IF items = <<>> THEN <<>>
  ELSE <<"\n">> \o Indent(level) \o <<Quote(Head(items).k), ":", " ">>
       \o DumpsAt(Head(items).v, level)
       \o (IF Tail(items) = <<>> THEN <<>> ELSE <<",">>)
       \o DumpItems(Tail(items), level)

DumpElements(xs, level) ==
  IF xs = <<>> THEN <<>>
  ELSE <<"\n">> \o Indent(level) \o DumpsAt(Head(xs), level)
       \o (IF Tail(xs) = <<>> THEN <<>> ELSE <<",">>)
       \o DumpElements(Tail(xs), level)

Dumps(v) == DumpsAt(v, 0)

(* ---------------------------------------------------------------------- *)
(* Values shared by the cycle                                             *)
(* ---------------------------------------------------------------------- *)
Projects == {"whatsapp", "healthos"}

Paths == {"package.json", "src/app.ts"}

(* a value no text equals *)
FileAbsent == <<"<absent>">>

(* a 'content' that write_text cannot write: the key is missing or the    *)
(* value is not a string                                                  *)
BadContent == <<"<not text>">>

EmptyTree == [p \in Paths |-> FileAbsent]

(* the files of a fresh clone *)
PackageDoc == Map(<<Item("a", Num(1)), Item("b", Map(<<Item("a", Num(1))>>))>>)

(* file contents: a package.json as json.dumps writes it, and a source file *)
PackageText == Dumps(PackageDoc) \o <<"\n">>

CodeText == <<"const", " ", "x">>

ClonedTree == [p \in Paths |-> IF p = "package.json" THEN PackageText ELSE FileAbsent]

(* the keys of the flat payload shape; present: the payload has them *)
NoFlat == [present |-> FALSE, files_to_create |-> <<>>, files_to_modify |-> <<>>, tests |-> <<>>]

NoSolution == [status |-> "none", error |-> "", has_changes |-> FALSE, changes |-> <<>>, flat |-> NoFlat]

Result(status, error, completed, keys) ==
  [status |-> status, error |-> error, tasks_completed |-> completed, keys |-> keys]

NoResult == Result("none", "", 0, {})

(* ---------------------------------------------------------------------- *)
(* Python objects: decoded dicts live on a heap and are held by reference *)
(* ---------------------------------------------------------------------- *)
(* The heap is a sequence of dict objects; the address of an object is    *)
(* its position.  An item of a dict on the heap holds a number, a string, *)
(* a list, or a reference to another dict.  Lists are never changed by    *)
(* the merge and are kept as values.                                      *)
Ref(a) == [ref |-> a]

IsRef(v) == DOMAIN v = {"ref"}

NoObject == 0

(* the objects json.loads builds for a decoded dict: a fresh dict for the *)
(* value and for every dict nested in it; the result's address is the     *)
(* length of the heap before the call, plus one                           *)
RECURSIVE StoreItems(_, _, _)
StoreItems(h, a, items) ==
  IF items = <<>> THEN h
  ELSE LET it == Head(items)
       IN IF IsMap(it.v)
          THEN LET c == Len(h) + 1
                   h2 == StoreItems(Append(h, <<>>), c, it.v.map)
               IN StoreItems([h2 EXCEPT ![a] = SetItem(h2[a], it.k, Ref(c))], a, Tail(items))
          ELSE StoreItems([h EXCEPT ![a] = SetItem(h[a], it.k, it.v)], a, Tail(items))

Store(h, v) == StoreItems(Append(h, <<>>), Len(h) + 1, v.map)

(* the value a reference stands for, as == and json.dumps see it *)
RECURSIVE ReadObject(_, _)
ReadObject(h, a) ==
  Map([i \in 1..Len(h[a]) |->
         Item(h[a][i].k,
              IF IsRef(h[a][i].v) THEN ReadObject(h, h[a][i].v.ref) ELSE h[a][i].v)])

(* dict.copy(): a new dict with the same items; nested dicts are shared *)
CopyObject(h, a) == Append(h, h[a])

(* recursion left out: an overlapping key always takes the update's value *)
RECURSIVE DeepMerge_mutant(_, _, _)
DeepMerge_mutant(h, base, items) ==
  IF items = <<>> THEN h
  ELSE DeepMerge_mutant([h EXCEPT ![base] = SetItem(h[base], Head(items).k, Head(items).v)],
                        base, Tail(items))

(* deep_merge(base, updates), lines 52-59, as the loop over               *)
(* updates.items(): 'items' are the items of updates still to come.  The  *)
(* heap after the call is returned; the call itself returns base.         *)
RECURSIVE DeepMerge(_, _, _)
DeepMerge(h, base, items) ==
  IF items = <<>> THEN h
  ELSE LET key == Head(items).k
           value == Head(items).v
       IN IF /\ HasKey(h[base], key)
             /\ IsRef(GetItem(h[base], key))
             /\ IsRef(value)
          THEN DeepMerge(DeepMerge(h, GetItem(h[base], key).ref, h[value.ref]),
                         base, Tail(items))
          ELSE DeepMerge([h EXCEPT ![base] = SetItem(h[base], key, value)],
                         base, Tail(items))

(* line 61: merged = deep_merge(existing_content.copy(), changes), for two *)
(* freshly decoded dicts.  Gives the heap after the call and the          *)
(* addresses of existing_content, changes and merged.                     *)
MergeCall(old, new) ==
  LET h1 == Store(<<>>, old)
      e == 1
      h2 == Store(h1, new)
      c == Len(h1) + 1
      h3 == CopyObject(h2, e)
      b == Len(h2) + 1
  IN [heap |-> DeepMerge(h3, b, h3[c]), existing |-> e, changes |-> c, merged |-> b]

NoMergeCall == [heap |-> <<>>, existing |-> NoObject, changes |-> NoObject, merged |-> NoObject]

(* file_path.name and its suffix, for the paths of the model *)
MergePaths == {"package.json", "vite.config.ts", "src/app.ts"}

FileName ==
  ("package.json" :> "package.json") @@ ("vite.config.ts" :> "vite.config.ts")
  @@ ("src/app.ts" :> "app.ts")

JsonNames == {"package.json", "tsconfig.json"}

ConfigFiles == {"package.json", "tsconfig.json", "vite.config.ts", "vitest.config.ts"}

(* is_config and file_path.name.endswith('.json') *)
IsJsonConfig(path) == FileName[path] \in ConfigFiles /\ FileName[path] \in JsonNames

(* file_path.write_text(content); return True *)
SmartWrite(t, change, branch) ==
  [tree |-> [t EXCEPT ![change.file] = change.content], call |-> NoMergeCall,
   branch |-> branch]

(* _apply_modification_smart(repo_path, change) on the tree t, for a      *)
(* content that is text.  branch names the path taken:                    *)
(*   "created"   JSON config that does not exist: content written         *)
(*   "merged"    both texts decoded, deep_merge ran, merged written       *)
(*   "fallback"  content is not JSON (inner except): content written      *)
(*   "replaced"  the outer except: the file is not JSON, or one of the    *)
(*               two values is not a dict and copy(), items() or the      *)
(*               item assignment raised: content written                  *)
(*   "written"   any other file: content written                          *)
SmartModification(t, change) ==
  IF ~IsJsonConfig(change.file) THEN SmartWrite(t, change, "written")
  ELSE IF t[change.file] = FileAbsent THEN SmartWrite(t, change, "created")
  ELSE LET old == Loads(t[change.file])
           new == Loads(change.content)
       IN IF ~old.ok THEN SmartWrite(t, change, "replaced")
          ELSE IF ~new.ok THEN SmartWrite(t, change, "fallback")
          ELSE IF IsMap(old.val) /\ IsMap(new.val)
          THEN LET call == MergeCall(old.val, new.val)
               IN [tree |-> [t EXCEPT ![change.file] =
                               Dumps(ReadObject(call.heap, call.merged)) \o <<"\n">>],
                   call |-> call, branch |-> "merged"]
          ELSE IF IsArr(old.val) /\ new.val = Map(<<>>)
          THEN (* a list has copy(), and the loop over no items does nothing *)
               [tree |-> [t EXCEPT ![change.file] = Dumps(old.val) \o <<"\n">>],
                call |-> NoMergeCall, branch |-> "merged"]
          ELSE SmartWrite(t, change, "replaced")

(* ---------------------------------------------------------------------- *)
(* run_development_cycle: returning and the catch-all handler             *)
(* ---------------------------------------------------------------------- *)
(* the failures the stages produce; every one is a subclass of Exception  *)
ExceptionTypes ==
  { "GithubException", "CalledProcessError", "TimeoutExpired", "OSError",
    "KeyError", "UnicodeDecodeError" }

Exc(type, msg) == [type |-> type, msg |-> msg]

(* a handler that names one exception class instead of Exception *)
CaughtByCycle_mutant(e) == e.type = "GithubException"

(* 'except Exception as e' around the whole body *)
CaughtByCycle(e) == e.type \in ExceptionTypes

ErrorResult(e) == Result("error", e.msg, 0, {"status", "error", "tasks_completed"})

Return(r) ==
  /\ result' = r
  /\ raised' = FALSE
  /\ pc' = "done"

Throw(e) ==
  IF CaughtByCycle(e)
  THEN Return(ErrorResult(e))
  ELSE /\ result' = NoResult
       /\ raised' = TRUE
       /\ pc' = "done"

(* ---------------------------------------------------------------------- *)
(* Stages before select                                                   *)
(* ---------------------------------------------------------------------- *)
(* lines 99-100: github.get_user(...).get_repo(...) *)
GetRepo(ok) ==
  /\ pc = "get_repo"
  /\ stages' = Append(stages, "get_repo")
  /\ IF ok
     THEN /\ pc' = "quick_clone"
          /\ UNCHANGED <<result, raised>>
     ELSE Throw(Exc("GithubException", "get_repo failed"))
  /\ UNCHANGED <<lateVars, mergeVars, apply_trace, synth_trace, project, cache, clone_path, remoteVars, selectVars, workVars, gitVars>>

(* _quick_clone.  The cache entry of a repository is "absent", "partial"  *)
(* (a directory that some but not all steps of a clone have filled) or    *)
(* "complete" (a clone with its .git directory, the test of line 453).    *)
(* the steps of a first-time clone, lines 480-516, in order *)
FirstCloneSteps ==
  <<"mkdir", "git init", "git config", "write sparse-checkout", "git remote add",
    "git fetch", "git checkout">>

(* the steps of an update, lines 456-469 *)
UpdateSteps == <<"git fetch", "git reset">>

(* steps that are no subprocess.run and so have no timeout *)
FileSteps == {"mkdir", "write sparse-checkout"}

StepException(step, kind) ==
  IF kind = "timeout" THEN Exc("TimeoutExpired", "clone timed out")
  ELSE IF step \in FileSteps THEN Exc("OSError", "clone failed")
       ELSE Exc("CalledProcessError", "clone failed")

NoException == Exc("none", "")

(* the entry as the steps before the failing one have left it; a failed   *)
(* mkdir leaves no directory                                              *)
EntryAtFailure(fail_at) == IF fail_at = 1 THEN "absent" ELSE "partial"

(* the handler of TimeoutExpired re-raising without the rmtree *)
FirstClone_mutant(fail_at, kind) ==
  IF fail_at = 0
  THEN [cache |-> "complete", exc |-> NoException]
  ELSE [cache |-> IF kind = "timeout" THEN EntryAtFailure(fail_at) ELSE "absent",
        exc |-> StepException(FirstCloneSteps[fail_at], kind)]

(* lines 476-530: fail_at = 0, every step succeeds; fail_at = k, step k    *)
(* raises; both handlers remove the directory if it exists and re-raise    *)
FirstClone(fail_at, kind) ==
  IF fail_at = 0
  THEN [cache |-> "complete", exc |-> NoException]
  ELSE [cache |-> "absent", exc |-> StepException(FirstCloneSteps[fail_at], kind)]

(* lines 453-474: whatever step of the update fails, the handler returns   *)
(* the path of the entry as it was                                         *)
UpdateClone(fail_at, kind) == [cache |-> "complete", exc |-> NoException]

NoClone == [branch |-> "none", fail_at |-> 0, kind |-> "fail", before |-> "absent", returned |-> FALSE]

QuickClone(fail_at, kind) ==
  /\ pc = "quick_clone"
  /\ LET cached == cache = "complete"
         steps == IF cached THEN UpdateSteps ELSE FirstCloneSteps
     IN /\ fail_at \in 0..Len(steps)
        /\ kind = "timeout" => (fail_at > 0 /\ steps[fail_at] \notin FileSteps)
        /\ LET r == IF cached THEN UpdateClone(fail_at, kind) ELSE FirstClone(fail_at, kind)
           IN /\ clone_path' = IF cached THEN "update" ELSE "first"
              /\ cache' = r.cache
              /\ clone_log' = [branch |-> clone_path', fail_at |-> fail_at, kind |-> kind,
                               before |-> cache, returned |-> r.exc = NoException]
              /\ IF r.exc = NoException
                 THEN /\ pc' = "load_priorities"
                      /\ UNCHANGED <<result, raised>>
                 ELSE Throw(r.exc)
  /\ stages' = Append(stages, "quick_clone")
  /\ UNCHANGED <<cliVars, parseVars, loadVars, docs_outcome, mergeVars, apply_trace, synth_trace,
                 project, remoteVars, selectVars, workVars, gitVars>>

(* ---------------------------------------------------------------------- *)
(* _load_project_priorities                                               *)
(* ---------------------------------------------------------------------- *)
(* A planning document is FileAbsent, Unreadable (read_text raises) or    *)
(* its text, one character per element.  The documents of a clone are     *)
(* [fixed |-> path -> document, releases |-> documents], releases[i]      *)
(* being docs/roadmap/v<i>.md.                                            *)
Unreadable == <<"<unreadable>">>

(* content[:2000] *)
PriorityBudget == 2000

PlanningDoc(name, path) == [name |-> name, path |-> path]

(* lines 562-566 *)
WhatsappPlanningFiles ==
  << PlanningDoc(<<"BACKLOG.md">>, "BACKLOG.md"),
     PlanningDoc(<<"Acceptance Criteria">>, "ACCEPTANCE_CRITERIA_STATUS.md"),
     PlanningDoc(<<"Main Roadmap">>,
                 "docs/roadmap/REVISED_Technical_Release_Sequence_Mobile_First_20251026.md") >>

(* lines 576-581 *)
HealthosPlanningFiles ==
  << PlanningDoc(<<"BACKLOG">>, "BACKLOG.md"),
     PlanningDoc(<<"COMPREHENSIVE_TECHNICAL_BACKLOG">>, "COMPREHENSIVE_TECHNICAL_BACKLOG.md"),
     PlanningDoc(<<"CURRENT_PRIORITIES">>, "docs/CURRENT_PRIORITIES_20250922.md"),
     PlanningDoc(<<"Project Plan">>, "reports_plans_approaches/new_projectplan_20250907.md") >>

FixedPlanningFiles(proj) ==
  IF proj = "whatsapp" THEN WhatsappPlanningFiles ELSE HealthosPlanningFiles

PlanningPaths ==
  { WhatsappPlanningFiles[i].path : i \in 1..Len(WhatsappPlanningFiles) }
  \cup { HealthosPlanningFiles[i].path : i \in 1..Len(HealthosPlanningFiles) }

(* v<i>.md, i a single digit, so that the order of names is that of i *)
ReleaseName(i) == <<"v", Digits[i + 1], ".md">>

(* sorted(roadmap_dir.glob('v*.md'), reverse=True)[:2]: the indices of the *)
(* release specs that exist, highest name first, at most two of them       *)
ReleaseSpecs(d) ==
  LET n == Len(d.releases)
      descending == [k \in 1..n |-> n + 1 - k]
      exists(i) == d.releases[i] # FileAbsent
  IN Take(SelectSeq(descending, exists), 2)

(* planning_files as lines 562-581 build it: name and document, in order *)
PlanningFiles(d, proj) ==
  LET fixed == FixedPlanningFiles(proj)
      listed == [i \in 1..Len(fixed) |-> [name |-> fixed[i].name, doc |-> d.fixed[fixed[i].path]]]
      specs == ReleaseSpecs(d)
      released == [k \in 1..Len(specs) |->
                     [name |-> <<"Release: ">> \o ReleaseName(specs[k]), doc |-> d.releases[specs[k]]]]
  IN IF proj = "whatsapp" THEN listed \o released ELSE listed

(* the whole text taken, without the [:2000] *)
PrioritySection_mutant(name, content) ==
  <<"## ">> \o name \o <<"\n">> \o content \o <<"\n">>

(* line 589: f"## {doc_name}\n{content[:2000]}\n" *)
PrioritySection(name, content) ==
  <<"## ">> \o name \o <<"\n">> \o Take(content, PriorityBudget) \o <<"\n">>

(* "\n\n".join(parts) *)
RECURSIVE JoinParts(_)
JoinParts(parts) ==
  IF parts = <<>> THEN <<>>
  ELSE IF Len(parts) = 1 THEN parts[1]
       ELSE parts[1] \o <<"\n\n">> \o JoinParts(Tail(parts))

NoPrioritiesFound == <<"No planning documents found - use best judgment">>

(* lines 584-600: a file that does not exist or cannot be read adds nothing *)
LoadProjectPriorities(d, proj) ==
  LET files == PlanningFiles(d, proj)
      loaded(f) == f.doc # FileAbsent /\ f.doc # Unreadable
      read == SelectSeq(files, loaded)
      parts == [i \in 1..Len(read) |-> PrioritySection(read[i].name, read[i].doc)]
  IN IF parts # <<>> THEN JoinParts(parts) ELSE NoPrioritiesFound

NotLoaded == <<"<not loaded>">>

(* line 107 *)
LoadPriorities ==
  /\ pc = "load_priorities"
  /\ stages' = Append(stages, "load_priorities")
  /\ priorities' = LoadProjectPriorities(docs, project)
  /\ pc' = "get_issues"
  /\ UNCHANGED <<cliVars, parseVars, docs, clone_log, docs_outcome, mergeVars, apply_trace,
                 synth_trace, project, cache, clone_path, remoteVars, selectVars, workVars,
                 gitVars, result, raised>>

(* line 110: issues = list(repo.get_issues(state='open')) *)
GetIssues(ok) ==
  /\ pc = "get_issues"
  /\ stages' = Append(stages, "get_issues")
  /\ IF ok
     THEN /\ issues' = remote_issues
          /\ pc' = IF remote_issues = <<>> THEN "synthesize" ELSE "select"
          /\ UNCHANGED <<result, raised>>
     ELSE /\ issues' = issues
          /\ Throw(Exc("GithubException", "get_issues failed"))
  /\ UNCHANGED <<lateVars, mergeVars, apply_trace, synth_trace, project, cache, clone_path, remoteVars, suitable_issues, top_issues,
                 shown, oracle_reply, selected_issue, workVars, gitVars>>

(* ---------------------------------------------------------------------- *)
(* _create_issue_from_backlog and _ensure_labels_exist                    *)
(* ---------------------------------------------------------------------- *)
(* task_data.get('labels', ['autonomous-created', '3am-ready']) *)
DefaultLabels == <<L_autonomous_created, L_3am_ready>>

RequestedLabels(reply) == IF reply.has_labels THEN reply.labels ELSE DefaultLabels

LoweredNames(names) == { Lower(n) : n \in names }

(* the loop of _ensure_labels_exist.  'existing' is the remote's label set *)
(* read once before the loop; 'remote' is the remote's label set as the    *)
(* loop changes it.  create_label raises for a label in 'failing', and for *)
(* a name the remote already holds in some casing.                         *)
(* create_label without the try: the first refused label ends the loop *)
RECURSIVE EnsureLoop_mutant(_, _, _, _)
EnsureLoop_mutant(labels, existing, remote, failing) ==
  IF labels = <<>> THEN [valid |-> <<>>, remote |-> remote]
  ELSE LET label == Head(labels)
           label_lower == Lower(label)
       IN IF label_lower \in LoweredNames(existing)
          THEN LET rest == EnsureLoop_mutant(Tail(labels), existing, remote, failing)
               IN [valid |-> <<CHOOSE n \in existing : Lower(n) = label_lower>> \o rest.valid,
                   remote |-> rest.remote]
          ELSE IF label \in failing \/ label_lower \in LoweredNames(remote)
               THEN [valid |-> <<>>, remote |-> remote]
               ELSE LET rest == EnsureLoop_mutant(Tail(labels), existing, remote \cup {label}, failing)
                    IN [valid |-> <<label>> \o rest.valid, remote |-> rest.remote]

RECURSIVE EnsureLoop(_, _, _, _)
EnsureLoop(labels, existing, remote, failing) ==
  IF labels = <<>> THEN [valid |-> <<>>, remote |-> remote]
  ELSE LET label == Head(labels)
           label_lower == Lower(label)
       IN IF label_lower \in LoweredNames(existing)
          THEN LET rest == EnsureLoop(Tail(labels), existing, remote, failing)
               IN [valid |-> <<CHOOSE n \in existing : Lower(n) = label_lower>> \o rest.valid,
                   remote |-> rest.remote]
          ELSE IF label \in failing \/ label_lower \in LoweredNames(remote)
               THEN EnsureLoop(Tail(labels), existing, remote, failing)
               ELSE LET rest == EnsureLoop(Tail(labels), existing, remote \cup {label}, failing)
                    IN [valid |-> <<label>> \o rest.valid, remote |-> rest.remote]

EnsureLabelsExist(labels, existing, failing) == EnsureLoop(labels, existing, existing, failing)

(* the check of estimated_complexity left out *)
SynthRejected_mutant(reply) ==
  \/ reply.kind # "json"
  \/ reply.no_task
  \/ ~reply.title
  \/ ~reply.body
  \/ reply.confidence = "low"

(* the checks of lines 313-332 on the decoded reply *)
SynthRejected(reply) ==
  \/ reply.kind # "json"
  \/ reply.no_task
  \/ ~reply.title
  \/ ~reply.body
  \/ reply.confidence = "low"
  \/ reply.complexity = "complex"

NextIssueNumber(open) == Len(open) + 1

(* a reply that passes every check; has_labels: the 'labels' key is there *)
Accepted(has_labels, labels) ==
  [kind |-> "json", no_task |-> FALSE, title |-> TRUE, body |-> TRUE,
   confidence |-> "high", complexity |-> "simple",
   has_labels |-> has_labels, labels |-> labels]

NoSynth ==
  [called |-> FALSE, backlog |-> FALSE, reply |-> Accepted(FALSE, <<>>), labels_ok |-> FALSE,
   failing |-> {}, issue_ok |-> FALSE, issues_before |-> <<>>, labels_before |-> {},
   returned |-> NoIssue]

(* what is kept of a call: its inputs, the remote as it was, and the      *)
(* issue returned (NoIssue for None)                                      *)
SynthCall(backlog, reply, labels_ok, failing, issue_ok, remote, returned) ==
  [called |-> TRUE, backlog |-> backlog, reply |-> reply, labels_ok |-> labels_ok,
   failing |-> failing, issue_ok |-> issue_ok, issues_before |-> remote[1],
   labels_before |-> remote[2], returned |-> returned]

(* lines 113-131 of the cycle with the call of _create_issue_from_backlog. *)
(* backlog: the backlog files gave text; reply: the oracle's answer;       *)
(* labels_ok: repo.get_labels worked; failing: labels whose creation the   *)
(* remote refuses; issue_ok: repo.create_issue worked                      *)
Synthesize(backlog, reply, labels_ok, failing, issue_ok) ==
  /\ pc = "synthesize"
  /\ stages' = Append(stages, "synthesize")
  /\ IF ~backlog \/ SynthRejected(reply) \/ ~labels_ok
     THEN (* created_issue is None *)
          /\ cache' = "absent"
          /\ Return(Result("no_work", "", 0, {"status", "message", "tasks_completed"}))
          /\ synth_trace' = SynthCall(backlog, reply, labels_ok, failing, issue_ok, remoteVars, NoIssue)
          /\ UNCHANGED <<remoteVars, issues>>
     ELSE LET ensured == EnsureLabelsExist(RequestedLabels(reply), remote_labels, failing)
              issue == [number |-> NextIssueNumber(remote_issues),
                        labels |-> Range(ensured.valid)]
          IN /\ remote_labels' = ensured.remote
             /\ IF issue_ok
                THEN /\ remote_issues' = <<issue>> \o remote_issues
                     /\ issues' = <<issue>>
                     /\ cache' = cache
                     /\ pc' = "select"
                     /\ synth_trace' = SynthCall(backlog, reply, labels_ok, failing, issue_ok, remoteVars, issue)
                     /\ UNCHANGED <<result, raised>>
                ELSE /\ cache' = "absent"
                     /\ Return(Result("no_work", "", 0, {"status", "message", "tasks_completed"}))
                     /\ synth_trace' = SynthCall(backlog, reply, labels_ok, failing, issue_ok, remoteVars, NoIssue)
                     /\ UNCHANGED <<remote_issues, issues>>
  /\ UNCHANGED <<lateVars, mergeVars, apply_trace, project, clone_path, suitable_issues, top_issues, shown,
                 oracle_reply, selected_issue, workVars, gitVars>>

(* lines 140-148: the cached clone is removed, and no selection ends the cycle *)
AfterSelect ==
  /\ pc = "selected"
  /\ cache' = "absent"
  /\ suitable_issues' = <<>>
  /\ top_issues' = <<>>
  /\ shown' = <<>>
  /\ oracle_reply' = NoOracle
  /\ IF selected_issue = NoIssue
     THEN Return(Result("no_suitable_issue", "", 0, {"status", "message", "tasks_completed"}))
     ELSE /\ pc' = "prepare_workspace"
          /\ UNCHANGED <<result, raised>>
  /\ UNCHANGED <<lateVars, mergeVars, apply_trace, synth_trace, project, clone_path, remoteVars, issues, selected_issue, workVars,
                 gitVars, stages>>

(* ---------------------------------------------------------------------- *)
(* Stages on the working tree                                             *)
(* ---------------------------------------------------------------------- *)
(* shutil.rmtree(repo_path) *)
RemoveWorkspace ==
  /\ workspace' = "absent"
  /\ tree' = EmptyTree

(* _prepare_workspace: a stale tree is removed, then git clone with        *)
(* check=True; a clone that is killed by the timeout may leave a partial   *)
(* directory behind                                                        *)
PrepareWorkspace(outcome) ==
  /\ pc = "prepare_workspace"
  /\ stages' = Append(stages, "prepare_workspace")
  /\ IF outcome = "ok"
     THEN /\ workspace' = "ready"
          /\ tree' = ClonedTree
          /\ ws_prepared' = TRUE
          /\ pc' = "load_constitution"
          /\ UNCHANGED <<result, raised>>
     ELSE /\ workspace' = IF outcome = "timeout" THEN "partial" ELSE "absent"
          /\ tree' = EmptyTree
          /\ ws_prepared' = FALSE
          /\ Throw(IF outcome = "timeout"
                   THEN Exc("TimeoutExpired", "git clone timed out")
                   ELSE Exc("CalledProcessError", "git clone failed"))
  /\ UNCHANGED <<lateVars, mergeVars, apply_trace, synth_trace, project, cache, clone_path, remoteVars, selectVars, gen_outcome, solution,
                 applied, test_outcome, test_passed, gitVars>>

(* _load_constitution: CLAUDE.md is read outside any try *)
LoadConstitution(ok) ==
  /\ pc = "load_constitution"
  /\ stages' = Append(stages, "load_constitution")
  /\ IF ok
     THEN /\ pc' = "generate"
          /\ UNCHANGED <<result, raised>>
     ELSE Throw(Exc("UnicodeDecodeError", "cannot read CLAUDE.md"))
  /\ UNCHANGED <<lateVars, mergeVars, apply_trace, synth_trace, project, cache, clone_path, remoteVars, selectVars, workVars, gitVars>>

(* an undecodable reply turned into an empty solution instead of an error *)
SolutionOf_mutant(gen) ==
  CASE gen.kind = "raise" ->
         [status |-> "error", error |-> "oracle call failed", has_changes |-> FALSE, changes |-> <<>>, flat |-> NoFlat]
    [] gen.kind = "log_error" ->
         [status |-> "error", error |-> "cannot write debug file", has_changes |-> FALSE, changes |-> <<>>, flat |-> NoFlat]
    [] gen.kind = "undecodable" ->
         [status |-> "success", error |-> "", has_changes |-> TRUE, changes |-> <<>>, flat |-> NoFlat]
    [] gen.kind = "not_object" ->
         [status |-> "error", error |-> "not a mapping", has_changes |-> FALSE, changes |-> <<>>, flat |-> NoFlat]
    [] OTHER ->
         [status |-> "success", error |-> "", has_changes |-> gen.has_changes, changes |-> gen.changes,
          flat |-> gen.flat]

(* _generate_solution, by what happens in it:                              *)
(*   "context_error"  _get_file_context raises, outside the try            *)
(*   "raise"          the oracle call raises                               *)
(*   "log_error"      the debug file cannot be written                     *)
(*   "undecodable"    json.loads raises JSONDecodeError                    *)
(*   "not_object"     the reply decodes to a list, string or number, and   *)
(*                    solution['status'] = 'success' raises                *)
(*   "object"         the reply decodes to a mapping                       *)
SolutionOf(gen) ==
  CASE gen.kind = "raise" ->
         [status |-> "error", error |-> "oracle call failed", has_changes |-> FALSE, changes |-> <<>>, flat |-> NoFlat]
    [] gen.kind = "log_error" ->
         [status |-> "error", error |-> "cannot write debug file", has_changes |-> FALSE, changes |-> <<>>, flat |-> NoFlat]
    [] gen.kind = "undecodable" ->
         [status |-> "error", error |-> "JSON parse failed", has_changes |-> FALSE, changes |-> <<>>, flat |-> NoFlat]
    [] gen.kind = "not_object" ->
         [status |-> "error", error |-> "not a mapping", has_changes |-> FALSE, changes |-> <<>>, flat |-> NoFlat]
    [] OTHER ->
         [status |-> "success", error |-> "", has_changes |-> gen.has_changes, changes |-> gen.changes,
          flat |-> gen.flat]

(* lines 159-174 *)
GenerateSolution(gen) ==
  /\ pc = "generate"
  /\ stages' = Append(stages, "generate")
  /\ gen_outcome' = gen.kind
  /\ IF gen.kind = "context_error"
     THEN /\ Throw(Exc("OSError", "cannot read file context"))
          /\ UNCHANGED <<workspace, tree, solution>>
     ELSE /\ solution' = SolutionOf(gen)
          /\ IF solution'.status # "success"
             THEN /\ RemoveWorkspace
                  /\ Return(Result("generation_failed", solution'.error, 0,
                                   {"status", "error", "tasks_completed"}))
             ELSE /\ pc' = "apply"
                  /\ UNCHANGED <<workspace, tree, result, raised>>
  /\ UNCHANGED <<lateVars, mergeVars, apply_trace, synth_trace, project, cache, clone_path, remoteVars, selectVars, ws_prepared, applied,
                 test_outcome, test_passed, gitVars>>

Unraised(t) == [tree |-> t, raised |-> FALSE]

(* lines 889-892; mkdir and write_text raise on a content that is no text *)
ApplyCreate(t, change) ==
  IF change.content = BadContent
  THEN [tree |-> t, raised |-> TRUE]
  ELSE Unraised([t EXCEPT ![change.file] = change.content])

(* the content of a JSON config decoded before it is written, with no     *)
(* handler around json.loads: an undecodable content raises               *)
ApplyModify_mutant(t, change) ==
  IF t[change.file] = FileAbsent
  THEN Unraised(t)
  ELSE IF change.content = BadContent \/ (IsJsonConfig(change.file) /\ ~Loads(change.content).ok)
       THEN [tree |-> t, raised |-> TRUE]
       ELSE Unraised([t EXCEPT ![change.file] = change.content])

(* lines 894-901: the whole file is replaced if it exists, whatever its   *)
(* name; _apply_modification_smart is not called                          *)
ApplyModify(t, change) ==
  IF t[change.file] = FileAbsent
  THEN Unraised(t)
  ELSE IF change.content = BadContent
       THEN [tree |-> t, raised |-> TRUE]
       ELSE Unraised([t EXCEPT ![change.file] = change.content])

(* unlink without the test for existence: FileNotFoundError *)
ApplyDelete_mutant(t, change) ==
  IF t[change.file] = FileAbsent
  THEN [tree |-> t, raised |-> TRUE]
  ELSE Unraised([t EXCEPT ![change.file] = FileAbsent])

(* lines 903-906 *)
ApplyDelete(t, change) == Unraised([t EXCEPT ![change.file] = FileAbsent])

(* one iteration of the loop of _apply_changes *)
ApplyOne(t, change) ==
  CASE change.action = "create" -> ApplyCreate(t, change)
    [] change.action = "modify" -> ApplyModify(t, change)
    [] change.action = "delete" -> ApplyDelete(t, change)
    [] OTHER -> Unraised(t)

(* the loop inside try/except: stops at the first change that raises *)
(* a raising change skipped, the loop going on with the next one *)
RECURSIVE ApplyLoop_mutant(_, _, _)
ApplyLoop_mutant(t, ops, n) ==
  IF ops = <<>> THEN [tree |-> t, applied |-> n, ok |-> TRUE]
  ELSE LET r == ApplyOne(t, Head(ops))
       IN IF r.raised
          THEN [ApplyLoop_mutant(r.tree, Tail(ops), n) EXCEPT !.ok = FALSE]
          ELSE ApplyLoop_mutant(r.tree, Tail(ops), n + 1)

RECURSIVE ApplyLoop(_, _, _)
ApplyLoop(t, ops, n) ==
  IF ops = <<>> THEN [tree |-> t, applied |-> n, ok |-> TRUE]
  ELSE LET r == ApplyOne(t, Head(ops))
       IN IF r.raised
          THEN [tree |-> r.tree, applied |-> n, ok |-> FALSE]
          ELSE ApplyLoop(r.tree, Tail(ops), n + 1)

NoApply == [called |-> FALSE, before |-> EmptyTree, after |-> EmptyTree, ok |-> FALSE]

(* lines 176-184: solution['changes'] is a KeyError when the key is missing *)
ApplyChanges ==
  /\ pc = "apply"
  /\ stages' = Append(stages, "apply")
  /\ IF ~solution.has_changes
     THEN /\ Throw(Exc("KeyError", "changes"))
          /\ UNCHANGED <<workspace, tree, applied, apply_trace>>
     ELSE LET r == ApplyLoop(tree, solution.changes, 0)
          IN /\ applied' = r.applied
             /\ apply_trace' = [called |-> TRUE, before |-> tree, after |-> r.tree, ok |-> r.ok]
             /\ IF r.ok
                THEN /\ tree' = r.tree
                     /\ workspace' = workspace
                     /\ pc' = "test"
                     /\ UNCHANGED <<result, raised>>
                ELSE /\ RemoveWorkspace
                     /\ Return(Result("changes_failed", "", 0, {"status", "tasks_completed"}))
  /\ UNCHANGED <<lateVars, mergeVars, synth_trace, project, cache, clone_path, remoteVars, selectVars,
                 ws_prepared, gen_outcome, solution, test_outcome, test_passed, gitVars>>

(* _run_tests: how the test command ended decides 'passed' *)
TestOutcomes == {"exit0", "nonzero", "timeout", "error"}

(* a timeout taken for a pass, like any other error of the test command *)
TestsPassed_mutant(outcome) ==
  CASE outcome = "exit0" -> TRUE
    [] outcome = "nonzero" -> FALSE
    [] OTHER -> TRUE

TestsPassed(outcome) ==
  CASE outcome = "exit0" -> TRUE
    [] outcome = "nonzero" -> FALSE
    [] outcome = "timeout" -> FALSE
    [] OTHER -> TRUE

(* the early return after failed tests left out *)
RunTests_mutant(outcome) ==
  /\ pc = "test"
  /\ stages' = Append(stages, "test")
  /\ test_outcome' = outcome
  /\ test_passed' = TestsPassed(outcome)
  /\ pc' = "format"
  /\ UNCHANGED <<workspace, tree, result, raised>>
  /\ UNCHANGED <<lateVars, mergeVars, apply_trace, synth_trace, project, cache, clone_path, remoteVars, selectVars, ws_prepared, gen_outcome,
                 solution, applied, gitVars>>

(* lines 186-196 *)
RunTests(outcome) ==
  /\ pc = "test"
  /\ stages' = Append(stages, "test")
  /\ test_outcome' = outcome
  /\ test_passed' = TestsPassed(outcome)
  /\ IF ~test_passed'
     THEN /\ RemoveWorkspace
          /\ Return(Result("tests_failed", "", 0, {"status", "test_output", "tasks_completed"}))
     ELSE /\ pc' = "format"
          /\ UNCHANGED <<workspace, tree, result, raised>>
  /\ UNCHANGED <<lateVars, mergeVars, apply_trace, synth_trace, project, cache, clone_path, remoteVars, selectVars, ws_prepared, gen_outcome,
                 solution, applied, gitVars>>

(* _format_code: everything is inside try/except, nothing escapes *)
FormatCode ==
  /\ pc = "format"
  /\ stages' = Append(stages, "format")
  /\ pc' = "commit_push"
  /\ UNCHANGED <<lateVars, mergeVars, apply_trace, synth_trace, project, cache, clone_path, remoteVars, selectVars, workVars, gitVars,
                 result, raised>>

(* git push run without check=True: a failed push is not noticed *)
CommitAndPush_mutant(fail_at) ==
  /\ pc = "commit_push"
  /\ stages' = Append(stages, "commit_push")
  /\ branch_created' = (fail_at = 0 \/ fail_at > 1)
  /\ committed' = (fail_at = 0 \/ fail_at > 3)
  /\ pushed' = (fail_at = 0)
  /\ IF fail_at = 0 \/ fail_at = 4
     THEN /\ pc' = "create_pr"
          /\ UNCHANGED <<result, raised>>
     ELSE Throw(Exc("CalledProcessError", "git command failed"))
  /\ UNCHANGED <<lateVars, mergeVars, apply_trace, synth_trace, project, cache, clone_path, remoteVars, selectVars, workVars,
                 pr_created, docs_updated>>

(* _commit_and_push: checkout -b, add, commit, push, each with check=True. *)
(* fail_at = 0: all four succeed; fail_at = k: command k exits non-zero    *)
CommitAndPush(fail_at) ==
  /\ pc = "commit_push"
  /\ stages' = Append(stages, "commit_push")
  /\ branch_created' = (fail_at = 0 \/ fail_at > 1)
  /\ committed' = (fail_at = 0 \/ fail_at > 3)
  /\ pushed' = (fail_at = 0)
  /\ IF fail_at = 0
     THEN /\ pc' = "create_pr"
          /\ UNCHANGED <<result, raised>>
     ELSE Throw(Exc("CalledProcessError", "git command failed"))
  /\ UNCHANGED <<lateVars, mergeVars, apply_trace, synth_trace, project, cache, clone_path, remoteVars, selectVars, workVars,
                 pr_created, docs_updated>>

(* _create_pull_request: repo.create_pull may raise *)
CreatePullRequest(ok) ==
  /\ pc = "create_pr"
  /\ stages' = Append(stages, "create_pr")
  /\ pr_created' = ok
  /\ IF ok
     THEN /\ pc' = "update_docs"
          /\ UNCHANGED <<result, raised>>
     ELSE Throw(Exc("GithubException", "create_pull failed"))
  /\ UNCHANGED <<lateVars, mergeVars, apply_trace, synth_trace, project, cache, clone_path, remoteVars, selectVars, workVars,
                 branch_created, committed, pushed, docs_updated>>

(* the git commands of the doc update run with check=True: a non-zero     *)
(* exit raises CalledProcessError                                         *)
UpdateProjectDocs_mutant(outcome) ==
  /\ pc = "update_docs"
  /\ stages' = Append(stages, "update_docs")
  /\ docs_updated' = (outcome = "ok")
  /\ docs_outcome' = outcome
  /\ IF outcome = "raise"
     THEN Throw(Exc("OSError", "doc update failed"))
     ELSE IF outcome = "nonzero"
          THEN Throw(Exc("CalledProcessError", "git command failed"))
          ELSE /\ pc' = "finish"
               /\ UNCHANGED <<result, raised>>
  /\ UNCHANGED <<cliVars, parseVars, loadVars, clone_log, mergeVars, apply_trace, synth_trace,
                 project, cache, clone_path, remoteVars, selectVars, workVars,
                 branch_created, committed, pushed, pr_created>>

(* _update_project_docs: file writes and subprocess.run are outside any    *)
(* try; a git command that merely exits non-zero is ignored (no check)     *)
UpdateProjectDocs(outcome) ==
  /\ pc = "update_docs"
  /\ stages' = Append(stages, "update_docs")
  /\ docs_updated' = (outcome = "ok")
  /\ docs_outcome' = outcome
  /\ IF outcome = "raise"
     THEN Throw(Exc("OSError", "doc update failed"))
     ELSE /\ pc' = "finish"
          /\ UNCHANGED <<result, raised>>
  /\ UNCHANGED <<cliVars, parseVars, loadVars, clone_log, mergeVars, apply_trace, synth_trace,
                 project, cache, clone_path, remoteVars, selectVars, workVars,
                 branch_created, committed, pushed, pr_created>>

(* lines 216-226 *)
Finish ==
  /\ pc = "finish"
  /\ RemoveWorkspace
  /\ Return(Result("pr_created", "", 1,
                   {"status", "pr_url", "issue_number", "issue_title",
                    "tasks_completed", "branch"}))
  /\ UNCHANGED <<lateVars, mergeVars, apply_trace, synth_trace, project, cache, clone_path, remoteVars, selectVars, ws_prepared, gen_outcome,
                 solution, applied, test_outcome, test_passed, gitVars, stages>>

(* ---------------------------------------------------------------------- *)
(* run_autonomous_dev.py: main                                            *)
(* ---------------------------------------------------------------------- *)
(* os.getenv gives None for a variable that is not set *)
EnvUnset == <<"<None>">>

EnvSet == <<"s", "e", "c", "r", "e", "t">>

(* 'not value': None and the empty string are both false *)
Falsy(value) == value = EnvUnset \/ value = <<>>

A_whatsapp == <<"w", "h", "a", "t", "s", "a", "p", "p">>
A_healthos == <<"h", "e", "a", "l", "t", "h", "o", "s">>
A_whatsapp_analyser ==
  <<"w", "h", "a", "t", "s", "a", "p", "p", "-", "a", "n", "a", "l", "y", "s", "e", "r">>

(* line 38 *)
KnownProjects == {A_whatsapp, A_healthos, A_whatsapp_analyser}

(* lines 44-45, and the name as the cycle compares it *)
NormalizedProject(name) ==
  IF name = A_healthos THEN "healthos" ELSE "whatsapp"

NotExited == -1

NoProject == "none"

(* the argument compared as it was typed, without .lower() *)
ArgumentAccepted_mutant(args) == Len(args) >= 2 /\ args[2] \in KnownProjects

(* lines 32-41: sys.argv[1].lower() is one of the three names *)
ArgumentAccepted(args) == Len(args) >= 2 /\ Lower(args[2]) \in KnownProjects

(* lines 18-60: the checks, the construction and the call of the cycle *)
Main ==
  /\ pc = "main"
  /\ IF Falsy(github_token) \/ Falsy(anthropic_api_key) \/ ~ArgumentAccepted(argv)
     THEN /\ exit_code' = 1
          /\ pc' = "exited"
          /\ UNCHANGED <<project, developer, cycles_run>>
     ELSE /\ project' = NormalizedProject(Lower(argv[2]))
          /\ developer' = TRUE
          /\ cycles_run' = cycles_run + 1
          /\ pc' = "get_repo"
          /\ exit_code' = exit_code
  /\ UNCHANGED <<github_token, anthropic_api_key, argv, parseVars, loadVars, clone_log,
                 docs_outcome, mergeVars, apply_trace, synth_trace, cache, clone_path,
                 remoteVars, selectVars, workVars, gitVars, stages, result, raised>>

(* lines 60-72: the result is printed, main returns 0 and sys.exit gets it; *)
(* an exception that left the cycle would end the process with status 1    *)
Exit ==
  /\ pc = "done"
  /\ exit_code = NotExited
  /\ exit_code' = IF raised THEN 1 ELSE 0
  /\ pc' = "exited"
  /\ UNCHANGED <<github_token, anthropic_api_key, argv, developer, cycles_run, parseVars,
                 loadVars, clone_log, docs_outcome, mergeVars, apply_trace, synth_trace,
                 project, cache, clone_path, remoteVars, selectVars, workVars, gitVars,
                 stages, result, raised>>

(* ---------------------------------------------------------------------- *)
(* The parts of the state a specification does not exercise               *)
(* ---------------------------------------------------------------------- *)
(* the cycle called on a developer that exists, not through main *)
CalledDirectly ==
  /\ github_token = EnvSet
  /\ anthropic_api_key = EnvSet
  /\ argv = <<>>
  /\ developer = TRUE
  /\ cycles_run = 1
  /\ exit_code = NotExited

NotDecoded == [ok |-> FALSE, val |-> Num(0)]

NothingParsed ==
  /\ response_text = <<>>
  /\ decoded = NotDecoded

ShortDoc == <<"t", "o", "d", "o">>

MaxReleaseSpecs == 3

NoReleases == [i \in 1..MaxReleaseSpecs |-> FileAbsent]

(* a clone whose only planning document is one that the backlog loader    *)
(* does not read                                                          *)
CycleDocs ==
  [fixed |-> [p \in PlanningPaths |->
                IF p \in {"docs/CURRENT_PRIORITIES_20250922.md",
                          "docs/roadmap/REVISED_Technical_Release_Sequence_Mobile_First_20251026.md"}
                THEN ShortDoc ELSE FileAbsent],
   releases |-> NoReleases]

(* a first-time clone that went through *)
Cloned == [branch |-> "first", fail_at |-> 0, kind |-> "fail", before |-> "absent", returned |-> TRUE]

(* before the cycle has cloned or loaded anything *)
BeforeClone ==
  /\ docs = CycleDocs
  /\ priorities = NotLoaded
  /\ clone_log = NoClone
  /\ docs_outcome = "none"

(* after the clone and the load of the priorities *)
AfterLoad ==
  /\ docs = CycleDocs
  /\ priorities = LoadProjectPriorities(docs, project)
  /\ clone_log = Cloned
  /\ docs_outcome = "none"

(* ---------------------------------------------------------------------- *)
(* Inputs of select                                                       *)
(* ---------------------------------------------------------------------- *)
MaxLabels == 2
MaxHead == 2
MaxTail == 1
MaxPad == 15

SeqsUpTo(S, n) == UNION { [1..k -> S] : k \in 0..n }

(* the remote lists open issues newest first: numbers descend *)
MkIssues(labelSeq) ==
  [i \in 1..Len(labelSeq) |-> [number |-> Len(labelSeq) - i + 1, labels |-> labelSeq[i]]]

SmallLabelSets == { S \in SUBSET LabelNames : Cardinality(S) <= MaxLabels }

(* one label of each scoring rule, for every combination of the rules *)
RuleLabels == <<L_3am_ready, L_autonomous_created, L_backlog, L_good_first_issue, L_bug>>

RuleLabelSets == { { RuleLabels[i] : i \in G } : G \in SUBSET (1..Len(RuleLabels)) }

(* label sets of the first items of a list *)
HeadLabelSets ==
  { {L_bug}, {L_quick_win, L_roadmap}, {U_3AM_Ready},
    {U_Autonomous_Created, L_bug}, {L_autonomous_created, U_WONTFIX} }

(* label sets of the last items of a list *)
TailLabelSets == { {L_3am_ready, L_bug}, {L_autonomous_created} }

(* the label set of the run of equal items between them *)
FillerLabelSets == { {L_backlog}, {U_Blocked} }

(* lengths of that run: none, enough to fill the shortlist, and around   *)
(* the number of items select looks at                                   *)
PadLengths == {0, ShortlistSize - 1} \cup ((CheckTop - 2)..MaxPad)

LabelLists ==
  { <<S>> : S \in SmallLabelSets \cup RuleLabelSets }
  \cup
  { h \o [i \in 1..n |-> f] \o t :
      h \in SeqsUpTo(HeadLabelSets, MaxHead),
      n \in PadLengths,
      f \in FillerLabelSets,
      t \in SeqsUpTo(TailLabelSets, MaxTail) }

SelectInputs == { MkIssues(ls) : ls \in LabelLists }

SelectReplies ==
  { <<>>,
    <<"n", "o", "n", "e">>,
    <<"1">>,
    <<"#", "2">>,
    <<"2", " ", "o", "r", " ", "1">>,
    <<"I", "s", "s", "u", "e", " ", "1", "6", ".">>,
    <<"3", "?">>,
    <<"9", "9">> }

SelectOutcomes == {OracleRaise} \cup { OracleText(t) : t \in SelectReplies }

(* ---------------------------------------------------------------------- *)
(* select on its own: the state at the call, for every input list         *)
(* ---------------------------------------------------------------------- *)
InitSelect ==
  /\ pc = "select"
  /\ project \in {"whatsapp"}
  /\ cache = "complete"
  /\ clone_path = "first"
  /\ CalledDirectly
  /\ NothingParsed
  /\ AfterLoad
  /\ issues \in SelectInputs
  /\ remote_issues = issues
  /\ remote_labels = UNION { issues[i].labels : i \in 1..Len(issues) }
  /\ suitable_issues = <<>>
  /\ top_issues = <<>>
  /\ shown = <<>>
  /\ oracle_reply = NoOracle
  /\ selected_issue = NoIssue
  /\ workspace = "absent"
  /\ ws_prepared = FALSE
  /\ tree = EmptyTree
  /\ gen_outcome = "none"
  /\ solution = NoSolution
  /\ applied = 0
  /\ test_outcome = "none"
  /\ test_passed = FALSE
  /\ branch_created = FALSE
  /\ committed = FALSE
  /\ pushed = FALSE
  /\ pr_created = FALSE
  /\ docs_updated = FALSE
  /\ stages = <<"get_repo", "quick_clone", "load_priorities", "get_issues">>
  /\ synth_trace = NoSynth
  /\ apply_trace = NoApply
  /\ heap = <<>>
  /\ existing_content = NoObject
  /\ changes = NoObject
  /\ merged = NoObject
  /\ merge_log = <<>>
  /\ result = NoResult
  /\ raised = FALSE

NextSelect ==
  \/ SelectBegin
  \/ \E outcome \in SelectOutcomes : SelectOracle(outcome)

SpecSelect == InitSelect /\ [][NextSelect]_vars


(* ---------------------------------------------------------------------- *)
(* _apply_modification_smart on its own: a file, and overlays applied to  *)
(* it one after the other                                                 *)
(* ---------------------------------------------------------------------- *)
MaxDepth == 2

(* the number of calls in a row that are looked at *)
MergesChecked == 2

NoValue == [absent |-> TRUE]

(* the values a key may hold in a dict without nesting *)
Leaves == ("a" :> { Num(1), Arr(<<Num(1)>>) }) @@ ("b" :> { Num(2) })

(* dicts without nesting: every key is missing or holds a leaf *)
FlatDoc(f) ==
  Map(SelectSeq([i \in 1..Len(KeyNames) |-> Item(KeyNames[i], f[KeyNames[i]])],
                LAMBDA it : it.v # NoValue))

FlatDocs ==
  { FlatDoc(f) : f \in { g \in [Range(KeyNames) -> UNION { Leaves[k] : k \in DOMAIN Leaves } \cup {NoValue}] :
                           \A k \in Range(KeyNames) : g[k] \in Leaves[k] \cup {NoValue} } }

Nest(d) == Map(<<Item("a", d)>>)

(* the dicts without nesting, wrapped n times *)
RECURSIVE NestedDocs(_)
NestedDocs(n) == IF n = 0 THEN FlatDocs ELSE { Nest(d) : d \in NestedDocs(n - 1) }

MergeDocs == UNION { NestedDocs(n) : n \in 0..MaxDepth }

(* the same text without line breaks and indentation *)
Compact(v) == SelectSeq(Dumps(v), LAMBDA tok : tok \notin Whitespace)

(* a text cut off in the middle: JSONDecodeError *)
BrokenJson == <<"{", Quote("a"), ":">>

(* JSON, but a list or a number where a dict is expected *)
ListText == <<"[", "1", "]">>

NumberText == <<"2">>

FileTexts ==
  { Dumps(d) \o <<"\n">> : d \in MergeDocs } \cup { BrokenJson, ListText, FileAbsent }

OverlayTexts ==
  { Compact(d) : d \in MergeDocs } \cup { BrokenJson, NumberText, CodeText }

Change(action, file, content) == [action |-> action, file |-> file, content |-> content]

MergeChanges ==
  { Change("modify", "package.json", c) : c \in OverlayTexts }
  \cup { Change("modify", "vite.config.ts", CodeText), Change("modify", "src/app.ts", CodeText) }

(* one call of _apply_modification_smart on the tree *)
ApplyModificationSmart(change) ==
  /\ pc = "merge"
  /\ Len(merge_log) < MergesChecked
  /\ LET r == SmartModification(tree, change)
     IN /\ tree' = r.tree
        /\ heap' = r.call.heap
        /\ existing_content' = r.call.existing
        /\ changes' = r.call.changes
        /\ merged' = r.call.merged
        /\ merge_log' = Append(merge_log, [file |-> change.file, before |-> tree[change.file],
                                           overlay |-> change.content, branch |-> r.branch])
  /\ UNCHANGED <<lateVars, pc, project, cache, clone_path, remoteVars, selectVars, workspace, ws_prepared,
                 gen_outcome, solution, applied, test_outcome, test_passed, gitVars,
                 synth_trace, apply_trace, stages, result, raised>>

InitMerge ==
  /\ pc = "merge"
  /\ project \in {"whatsapp"}
  /\ cache = "absent"
  /\ clone_path = "none"
  /\ CalledDirectly
  /\ NothingParsed
  /\ BeforeClone
  /\ remote_issues = <<>>
  /\ remote_labels = {}
  /\ issues = <<>>
  /\ suitable_issues = <<>>
  /\ top_issues = <<>>
  /\ shown = <<>>
  /\ oracle_reply = NoOracle
  /\ selected_issue = NoIssue
  /\ workspace = "ready"
  /\ ws_prepared = TRUE
  /\ \E c \in FileTexts :
       tree = [p \in MergePaths |-> IF p = "package.json" THEN c ELSE FileAbsent]
  /\ gen_outcome = "none"
  /\ solution = NoSolution
  /\ applied = 0
  /\ test_outcome = "none"
  /\ test_passed = FALSE
  /\ branch_created = FALSE
  /\ committed = FALSE
  /\ pushed = FALSE
  /\ pr_created = FALSE
  /\ docs_updated = FALSE
  /\ synth_trace = NoSynth
  /\ apply_trace = NoApply
  /\ heap = <<>>
  /\ existing_content = NoObject
  /\ changes = NoObject
  /\ merged = NoObject
  /\ merge_log = <<>>
  /\ stages = <<>>
  /\ result = NoResult
  /\ raised = FALSE

NextMerge == \E change \in MergeChanges : ApplyModificationSmart(change)

SpecMerge == InitMerge /\ [][NextMerge]_vars

(* ---------------------------------------------------------------------- *)
(* The cycle from _apply_changes on: a prepared working tree and a        *)
(* generated solution with its list of changes                            *)
(* ---------------------------------------------------------------------- *)
MaxOps == 2

OverlayDoc == Map(<<Item("b", Map(<<Item("b", Arr(<<Num(1)>>))>>))>>)

(* a partial edit of package.json, as the oracle is asked to write it *)
OverlayText == Compact(OverlayDoc)

ApplyOps ==
  { Change("create", f, c) : f \in Paths, c \in {CodeText, BadContent} }
  \cup { Change("modify", f, c) : f \in Paths, c \in {OverlayText, BrokenJson, BadContent} }
  \cup { Change("delete", f, <<>>) : f \in Paths }

(* what the clone of the repository may hold *)
ApplyTrees == { ClonedTree, [ClonedTree EXCEPT !["src/app.ts"] = CodeText] }

InitApply ==
  /\ pc = "apply"
  /\ project \in {"whatsapp"}
  /\ cache = "absent"
  /\ clone_path = "first"
  /\ CalledDirectly
  /\ NothingParsed
  /\ AfterLoad
  /\ remote_issues = MkIssues(<<{L_bug}>>)
  /\ remote_labels = {L_bug}
  /\ issues = remote_issues
  /\ suitable_issues = <<>>
  /\ top_issues = <<>>
  /\ shown = <<>>
  /\ oracle_reply = NoOracle
  /\ selected_issue = issues[1]
  /\ workspace = "ready"
  /\ ws_prepared = TRUE
  /\ tree \in ApplyTrees
  /\ gen_outcome = "object"
  /\ \E ops \in SeqsUpTo(ApplyOps, MaxOps) :
       solution = [status |-> "success", error |-> "", has_changes |-> TRUE, changes |-> ops, flat |-> NoFlat]
  /\ applied = 0
  /\ test_outcome = "none"
  /\ test_passed = FALSE
  /\ branch_created = FALSE
  /\ committed = FALSE
  /\ pushed = FALSE
  /\ pr_created = FALSE
  /\ docs_updated = FALSE
  /\ synth_trace = NoSynth
  /\ apply_trace = NoApply
  /\ heap = <<>>
  /\ existing_content = NoObject
  /\ changes = NoObject
  /\ merged = NoObject
  /\ merge_log = <<>>
  /\ stages = <<"get_repo", "quick_clone", "load_priorities", "get_issues", "select",
                "prepare_workspace", "load_constitution", "generate">>
  /\ result = NoResult
  /\ raised = FALSE

NextApply ==
  \/ ApplyChanges
  \/ \E outcome \in TestOutcomes : RunTests(outcome)
  \/ FormatCode
  \/ \E fail_at \in 0..4 : CommitAndPush(fail_at)
  \/ \E ok \in BOOLEAN : CreatePullRequest(ok)
  \/ \E outcome \in {"ok", "nonzero", "raise"} : UpdateProjectDocs(outcome)
  \/ Finish

SpecApply == InitApply /\ [][NextApply]_vars

(* ---------------------------------------------------------------------- *)
(* Inputs of the cycle                                                    *)
(* ---------------------------------------------------------------------- *)
MaxChanges == 1

ChangeOps ==
  { [action |-> a, file |-> f, content |-> c] :
      a \in {"create", "modify"}, f \in Paths, c \in {CodeText, BadContent} }
  \cup
  { [action |-> "delete", file |-> f, content |-> <<>>] : f \in Paths }

FlatFile(path, content) == [path |-> path, content |-> content]

(* payloads in the shape {files_to_create, files_to_modify, tests} *)
FlatPayloads ==
  { [present |-> TRUE, files_to_create |-> <<FlatFile("src/app.ts", CodeText)>>,
     files_to_modify |-> <<>>, tests |-> <<>>],
    [present |-> TRUE, files_to_create |-> <<>>,
     files_to_modify |-> <<[path |-> "package.json", new_content |-> CodeText]>>,
     tests |-> <<>>] }

GenFailure(kind) == [kind |-> kind, has_changes |-> FALSE, changes |-> <<>>, flat |-> NoFlat]

GenOutcomes ==
  { GenFailure(k) : k \in {"context_error", "raise", "log_error", "undecodable", "not_object"} }
  \cup
  { [kind |-> "object", has_changes |-> FALSE, changes |-> <<>>, flat |-> NoFlat] }
  \cup
  { [kind |-> "object", has_changes |-> TRUE, changes |-> cs, flat |-> NoFlat] :
      cs \in SeqsUpTo(ChangeOps, MaxChanges) }
  \cup
  { [kind |-> "object", has_changes |-> FALSE, changes |-> <<>>, flat |-> f] : f \in FlatPayloads }

LabelRequests ==
  { <<>>, <<L_autonomous_created, L_3am_ready>>, <<L_bug>>,
    <<L_autonomous_created, L_blocked>>,
    <<L_autonomous_created, L_3am_ready, L_bug>>, <<L_bug, U_Bug>> }

SynthReplies ==
  { [Accepted(FALSE, <<>>) EXCEPT !.kind = "raise"],
    [Accepted(FALSE, <<>>) EXCEPT !.kind = "garbage"],
    [Accepted(FALSE, <<>>) EXCEPT !.kind = "not_object"],
    [Accepted(FALSE, <<>>) EXCEPT !.no_task = TRUE],
    [Accepted(FALSE, <<>>) EXCEPT !.title = FALSE],
    [Accepted(FALSE, <<>>) EXCEPT !.body = FALSE],
    [Accepted(FALSE, <<>>) EXCEPT !.confidence = "low"],
    [Accepted(FALSE, <<>>) EXCEPT !.complexity = "complex"],
    Accepted(FALSE, <<>>) }
  \cup
  { Accepted(TRUE, ls) : ls \in LabelRequests }

CycleLabelLists ==
  { <<>>, <<{L_bug}>>, <<{U_Blocked}>>, <<{L_bug}, {L_quick_win, L_roadmap}>> }

(* ---------------------------------------------------------------------- *)
(* The cycle                                                              *)
(* ---------------------------------------------------------------------- *)
Init ==
  /\ pc = "get_repo"
  /\ project \in Projects
  /\ cache \in {"absent", "complete"}
  /\ clone_path = "none"
  /\ CalledDirectly
  /\ NothingParsed
  /\ BeforeClone
  /\ remote_issues \in { MkIssues(ls) : ls \in CycleLabelLists }
  /\ \E extra \in { {}, {U_Autonomous_Created} } :
       remote_labels = extra \cup UNION { remote_issues[i].labels : i \in 1..Len(remote_issues) }
  /\ issues = <<>>
  /\ suitable_issues = <<>>
  /\ top_issues = <<>>
  /\ shown = <<>>
  /\ oracle_reply = NoOracle
  /\ selected_issue = NoIssue
  /\ workspace \in {"absent", "ready"}
  /\ ws_prepared = FALSE
  /\ tree = IF workspace = "ready" THEN ClonedTree ELSE EmptyTree
  /\ gen_outcome = "none"
  /\ solution = NoSolution
  /\ applied = 0
  /\ test_outcome = "none"
  /\ test_passed = FALSE
  /\ branch_created = FALSE
  /\ committed = FALSE
  /\ pushed = FALSE
  /\ pr_created = FALSE
  /\ docs_updated = FALSE
  /\ stages = <<>>
  /\ synth_trace = NoSynth
  /\ apply_trace = NoApply
  /\ heap = <<>>
  /\ existing_content = NoObject
  /\ changes = NoObject
  /\ merged = NoObject
  /\ merge_log = <<>>
  /\ result = NoResult
  /\ raised = FALSE

Next ==
  \/ \E ok \in BOOLEAN : GetRepo(ok)
  \/ \E fail_at \in {0, 6}, kind \in {"fail", "timeout"} : QuickClone(fail_at, kind)
  \/ LoadPriorities
  \/ \E ok \in BOOLEAN : GetIssues(ok)
  \/ \E backlog \in BOOLEAN, reply \in SynthReplies, labels_ok \in BOOLEAN,
        issue_ok \in BOOLEAN :
       \E failing \in SUBSET Range(RequestedLabels(reply)) :
         Synthesize(backlog, reply, labels_ok, failing, issue_ok)
  \/ SelectBegin
  \/ \E outcome \in SelectOutcomes : SelectOracle(outcome)
  \/ AfterSelect
  \/ \E outcome \in {"ok", "fail", "timeout"} : PrepareWorkspace(outcome)
  \/ \E ok \in BOOLEAN : LoadConstitution(ok)
  \/ \E gen \in GenOutcomes : GenerateSolution(gen)
  \/ ApplyChanges
  \/ \E outcome \in TestOutcomes : RunTests(outcome)
  \/ FormatCode
  \/ \E fail_at \in 0..4 : CommitAndPush(fail_at)
  \/ \E ok \in BOOLEAN : CreatePullRequest(ok)
  \/ \E outcome \in {"ok", "nonzero", "raise"} : UpdateProjectDocs(outcome)
  \/ Finish

Spec == Init /\ [][Next]_vars


(* ---------------------------------------------------------------------- *)
(* Properties of the cycle                                                *)
(* ---------------------------------------------------------------------- *)
LastStage == IF stages = <<>> THEN "none" ELSE stages[Len(stages)]

NothingPublished ==
  ~branch_created /\ ~committed /\ ~pushed /\ ~pr_created /\ ~docs_updated

(* C1: whenever workspace preparation succeeded in a cycle, the working   *)
(* tree no longer exists when run_development_cycle returns, whatever the *)
(* outcome of the cycle.                                                  *)
C1_WorkingTreeRemovedOnReturn ==
  (pc = "done" /\ ws_prepared) => workspace = "absent"

(* C2: run_development_cycle never raises to its caller; every cycle that *)
(* ends returns a structured result, and a failure that no stage handles  *)
(* itself (here: a git command of commit/push, or create_pull) returns    *)
(* exactly {status: "error", error: <message>, tasks_completed: 0}.       *)
C2_NeverRaises ==
  /\ ~raised
  /\ pc = "done" =>
       /\ result # NoResult
       /\ {"status", "tasks_completed"} \subseteq result.keys
  /\ (pc = "done" /\ result.status = "error") =>
       /\ result.keys = {"status", "error", "tasks_completed"}
       /\ result.error # ""
       /\ result.tasks_completed = 0
  /\ (pc = "done" /\ LastStage = "commit_push" /\ ~pushed) => result.status = "error"
  /\ (pc = "done" /\ LastStage = "create_pr" /\ ~pr_created) => result.status = "error"
  /\ (pc = "done" /\ LastStage \in {"get_repo", "quick_clone", "get_issues",
                                    "prepare_workspace", "load_constitution"})
       => result.status = "error"

C2_Witness_PushFailed ==
  /\ pc = "done"
  /\ LastStage = "commit_push"
  /\ committed /\ ~pushed
  /\ result.status = "error"

(* C3 as stated: passed is true if and only if the test command exited 0, *)
(* and nothing is committed after a test run that did not exit 0.         *)
C3_PassedOnlyOnExitZero ==
  /\ test_outcome # "none" => (test_passed <=> test_outcome = "exit0")
  /\ (branch_created \/ committed \/ pushed) => test_outcome = "exit0"

(* C3 as amended: passed is true if and only if the test command exited 0 *)
(* or could not be run at all (an error other than a timeout, which the   *)
(* stage takes for a pass); a non-zero exit and a timeout report false,   *)
(* and the cycle commits only after a test stage that reported true.      *)
C3_PassedUnlessNonzeroOrTimeout ==
  /\ test_outcome # "none" => (test_passed <=> test_outcome \in {"exit0", "error"})
  /\ (branch_created \/ committed \/ pushed) =>
       /\ test_passed
       /\ test_outcome \in {"exit0", "error"}

C3_Witness_ErrorAssumedPass ==
  /\ test_outcome = "error"
  /\ test_passed
  /\ committed

(* C4: when the test stage reports failure the cycle returns tests_failed *)
(* and, in that cycle, no branch, commit, push, pull request or doc       *)
(* update has been or will be made: the test stage is the last one.       *)
C4_TestsFailedStopsCycle ==
  ("test" \in Range(stages) /\ ~test_passed) =>
    /\ pc = "done"
    /\ LastStage = "test"
    /\ result.status = "tests_failed"
    /\ result.tasks_completed = 0
    /\ NothingPublished

C4_Witness_TestsFailed ==
  /\ pc = "done"
  /\ test_outcome = "nonzero"
  /\ ~test_passed
  /\ applied > 0
  /\ result.status = "tests_failed"

(* C5: when the oracle call of the generation stage fails, or its reply   *)
(* does not decode, the cycle returns generation_failed with generation   *)
(* as its last stage: no ChangeOp is applied, no test, commit, push or    *)
(* pull request follows, and the solution holds no changes.               *)
C5_GenerationFailureAborts ==
  gen_outcome \in {"raise", "undecodable"} =>
    /\ pc = "done"
    /\ LastStage = "generate"
    /\ result.status = "generation_failed"
    /\ result.tasks_completed = 0
    /\ solution.status = "error"
    /\ ~solution.has_changes /\ solution.changes = <<>>
    /\ applied = 0
    /\ test_outcome = "none"
    /\ NothingPublished

C5_Witness_Undecodable ==
  /\ gen_outcome = "undecodable"
  /\ pc = "done"
  /\ ws_prepared
  /\ result.status = "generation_failed"


(* ---------------------------------------------------------------------- *)
(* Properties of select                                                   *)
(* ---------------------------------------------------------------------- *)
(* the issue carries, in some casing, one of the names *)
Carries(issue, names) ==
  \E l \in issue.labels : \E n \in names : Lower(l) = n

BlockedByLabel(issue) ==
  Carries(issue, {L_wontfix, L_invalid, L_duplicate, L_blocked})

OwnIssue(issue) == Carries(issue, {L_autonomous_created})

IncrementSum(issue) ==
    (IF Carries(issue, {L_3am_ready, L_autonomous_ready}) THEN 100 ELSE 0)
  + (IF Carries(issue, {L_autonomous_created}) THEN 90 ELSE 0)
  + (IF Carries(issue, {L_roadmap, L_backlog}) THEN 50 ELSE 0)
  + (IF Carries(issue, {L_quick_win, L_good_first_issue}) THEN 25 ELSE 0)
  + (IF Carries(issue, {L_bug}) THEN 10 ELSE 0)

(* C6: the score of every scored item is the sum of the five increments,  *)
(* each counted once and matched case-insensitively; an item without      *)
(* labels scores 0, {3am-ready, bug} scores 110, and every score is in    *)
(* 0..275.                                                                *)
C6_ScoreIsSumOfIncrements ==
  \A i \in 1..Len(suitable_issues) :
    LET e == suitable_issues[i]
    IN /\ e.score = IncrementSum(e.issue)
       /\ e.score \in 0..275
       /\ e.issue.labels = {} => e.score = 0
       /\ e.issue.labels = {L_3am_ready, L_bug} => e.score = 110

C6_Witness_Scored110 ==
  /\ pc # "select"
  /\ \E i \in 1..Len(suitable_issues) :
       /\ suitable_issues[i].issue.labels = {L_3am_ready, L_bug}
       /\ suitable_issues[i].score = 110

(* C7: an item carrying wontfix, invalid, duplicate or blocked (in any    *)
(* casing) is never scored, never shortlisted, never shown to the oracle  *)
(* and never returned, whatever the oracle replies.                       *)
C7_BlockedNeverConsidered ==
  \A k \in 1..Len(issues) :
    BlockedByLabel(issues[k]) =>
      /\ \A i \in 1..Len(suitable_issues) : suitable_issues[i].issue # issues[k]
      /\ issues[k] \notin Range(top_issues)
      /\ issues[k] \notin Range(shown)
      /\ selected_issue # issues[k]

C7_Witness_OracleNamesBlocked ==
  /\ pc = "selected"
  /\ oracle_reply.kind = "reply"
  /\ HasDigits(oracle_reply.text)
  /\ selected_issue # NoIssue
  /\ \E k \in 1..Len(issues) :
       /\ BlockedByLabel(issues[k])
       /\ OwnIssue(issues[k])
       /\ issues[k].number = FirstInteger(oracle_reply.text)

(* C8: if the shortlist holds an autonomous-created item, select returns  *)
(* the highest-ranked such item at once: the oracle is not called and no  *)
(* prompt is built.                                                       *)
C8_OwnIssueReturnedWithoutOracle ==
  (\E i \in 1..Len(top_issues) : OwnIssue(top_issues[i])) =>
    /\ pc = "selected"
    /\ oracle_reply = NoOracle
    /\ shown = <<>>
    /\ \E i \in 1..Len(top_issues) :
         /\ selected_issue = top_issues[i]
         /\ OwnIssue(top_issues[i])
         /\ \A j \in 1..(i - 1) : ~OwnIssue(top_issues[j])

C8_Witness_OwnIssueAtLowerRank ==
  /\ pc = "selected"
  /\ Len(top_issues) >= 2
  /\ ~OwnIssue(top_issues[1])
  /\ OwnIssue(selected_issue)

(* the oracle was asked and gave nothing usable: it raised, its reply has *)
(* no digits, or the first integer of the reply is no shortlisted number  *)
OracleUnusable ==
  /\ pc = "selected"
  /\ top_issues # <<>>
  /\ \A i \in 1..Len(top_issues) : ~OwnIssue(top_issues[i])
  /\ \/ oracle_reply.kind = "raise"
     \/ /\ oracle_reply.kind = "reply"
        /\ \/ ~HasDigits(oracle_reply.text)
           \/ \A i \in 1..Len(top_issues) :
                top_issues[i].number # FirstInteger(oracle_reply.text)

(* position k holds the non-blocked item of the list with the highest     *)
(* score, the earliest one among equal scores                             *)
(* the score of every item of the list, -1 for a blocked one *)
Ranking(list) ==
  [j \in 1..Len(list) |-> IF BlockedByLabel(list[j]) THEN -1 ELSE IncrementSum(list[j])]

BestAt(rank, k) ==
  /\ rank[k] >= 0
  /\ \A j \in DOMAIN rank : rank[j] < rank[k] \/ (rank[j] = rank[k] /\ j >= k)

FallbackIsBestOf(list) ==
  OracleUnusable =>
    /\ selected_issue = top_issues[1]
    /\ LET rank == Ranking(list)
       IN \E k \in 1..Len(list) : list[k] = selected_issue /\ BestAt(rank, k)

ScenarioTwoItems ==
  (/\ issues = MkIssues(<<{L_bug}, {L_quick_win, L_roadmap}>>)
   /\ pc = "selected"
   /\ oracle_reply = OracleRaise)
  => /\ suitable_issues = <<[score |-> 75, issue |-> issues[2]],
                            [score |-> 10, issue |-> issues[1]]>>
     /\ top_issues = <<issues[2], issues[1]>>
     /\ selected_issue = issues[2]

(* C9 as stated: with an unusable oracle select returns the shortlist     *)
(* item at rank 0, which is the non-blocked item of the input list with   *)
(* the highest score, the earliest among equal scores.                    *)
C9_FallbackIsBestOfInput ==
  /\ FallbackIsBestOf(issues)
  /\ ScenarioTwoItems

(* C9 as amended: with an unusable oracle select returns the shortlist    *)
(* item at rank 0, which is the non-blocked item with the highest score   *)
(* among the first 15 items of the input list, the earliest among equal   *)
(* scores; in the two-item scenario it returns item2.                     *)
C9_FallbackIsBestOfFirst15 ==
  /\ FallbackIsBestOf(Take(issues, 15))
  /\ ScenarioTwoItems

C9_Witness_NoDigitsLongList ==
  /\ OracleUnusable
  /\ oracle_reply.kind = "reply"
  /\ ~HasDigits(oracle_reply.text)
  /\ Len(top_issues) >= 3
  /\ Len(issues) > 15
  /\ selected_issue = top_issues[1]

(* C10: when the first integer of the oracle's reply is the number of a   *)
(* shortlisted item, select returns that item; the shortlist has at most  *)
(* 5 items, whatever select returns is one of them, and a number that     *)
(* names no shortlisted item is never honoured.                           *)
C10_OracleChoiceWithinShortlist ==
  /\ Len(top_issues) <= 5
  /\ (pc = "selected" /\ selected_issue # NoIssue) => selected_issue \in Range(top_issues)
  /\ (pc = "selected" /\ oracle_reply.kind = "reply" /\ HasDigits(oracle_reply.text)) =>
       LET n == FirstInteger(oracle_reply.text)
       IN IF \E i \in 1..Len(top_issues) : top_issues[i].number = n
          THEN selected_issue.number = n
          ELSE selected_issue.number # n

C10_Witness_OracleOverridesRank ==
  /\ pc = "selected"
  /\ oracle_reply.kind = "reply"
  /\ HasDigits(oracle_reply.text)
  /\ selected_issue.number = FirstInteger(oracle_reply.text)
  /\ selected_issue # top_issues[1]
  /\ \E k \in 1..Len(issues) :
       /\ issues[k] \notin Range(top_issues)
       /\ ~BlockedByLabel(issues[k])

(* select returns None exactly when no item of the list is left after the *)
(* blocking filter, and otherwise one of the five best non-blocked items  *)
(* of the list (fewer than five items of it score strictly higher)        *)
NoneIffAllBlocked(list) ==
  pc = "selected" =>
    LET rank == Ranking(list)
    IN /\ (selected_issue = NoIssue) <=> (\A j \in DOMAIN rank : rank[j] < 0)
       /\ selected_issue # NoIssue =>
            \E k \in DOMAIN rank :
              /\ list[k] = selected_issue
              /\ rank[k] >= 0
              /\ Cardinality({ j \in DOMAIN rank : rank[j] > rank[k] }) < ShortlistSize

(* C11 as stated: for a list of any length select returns None if and     *)
(* only if every item is blocked or the list is empty, and otherwise one  *)
(* of the five highest-scoring non-blocked items of the whole list.       *)
C11_NoneIffWholeListBlocked == NoneIffAllBlocked(issues)

(* C11 as amended: select returns None if and only if every one of the    *)
(* first 15 items of the list is blocked or the list is empty, and        *)
(* otherwise one of the five highest-scoring non-blocked items among the  *)
(* first 15.                                                              *)
C11_NoneIffFirst15Blocked == NoneIffAllBlocked(Take(issues, CheckTop))

C11_Witness_UnblockedBeyond15 ==
  /\ pc = "selected"
  /\ Len(issues) > CheckTop
  /\ \A k \in 1..CheckTop : BlockedByLabel(issues[k])
  /\ \E k \in (CheckTop + 1)..Len(issues) : ~BlockedByLabel(issues[k])
  /\ selected_issue = NoIssue

(* ---------------------------------------------------------------------- *)
(* Properties of the merge                                                *)
(* ---------------------------------------------------------------------- *)
LastMerge == merge_log[Len(merge_log)]

(* the last call took the merge path with two dicts *)
MergeRan == merge_log # <<>> /\ LastMerge.branch = "merged" /\ merged # NoObject

(* the two arguments as they were decoded, before the call *)
ExistingBefore == Loads(LastMerge.before).val

OverlayBefore == Loads(LastMerge.overlay).val

IsLeaf(v) == ~IsMap(v)

(* r is what the claim says merge(e, o) is *)
RECURSIVE MergedAs(_, _, _)
MergedAs(e, o, r) ==
  /\ IsMap(r)
  /\ KeysOf(r.map) = KeysOf(e.map) \cup KeysOf(o.map)
  /\ \A k \in KeysOf(e.map) \ KeysOf(o.map) : GetItem(r.map, k) = GetItem(e.map, k)
  /\ \A k \in KeysOf(o.map) :
       IF HasKey(e.map, k) /\ IsMap(GetItem(e.map, k)) /\ IsMap(GetItem(o.map, k))
       THEN MergedAs(GetItem(e.map, k), GetItem(o.map, k), GetItem(r.map, k))
       ELSE GetItem(r.map, k) = GetItem(o.map, k)

(* C12: the dict deep_merge returns has exactly the keys of existing and  *)
(* of the overlay; a key only in existing keeps its value at every depth, *)
(* a key whose two values are dicts holds their recursive merge, every    *)
(* other key of the overlay holds the overlay's value wholesale; merging  *)
(* the empty overlay gives existing back.  Two texts that decode to dicts *)
(* always take the merge path.                                            *)
C12_MergeKeysAndValues ==
  /\ MergeRan =>
       /\ MergedAs(ExistingBefore, OverlayBefore, ReadObject(heap, merged))
       /\ OverlayBefore = Map(<<>>) => ReadObject(heap, merged) = ExistingBefore
  /\ (/\ merge_log # <<>>
      /\ IsJsonConfig(LastMerge.file)
      /\ LastMerge.before # FileAbsent
      /\ Loads(LastMerge.before).ok /\ IsMap(Loads(LastMerge.before).val)
      /\ Loads(LastMerge.overlay).ok /\ IsMap(Loads(LastMerge.overlay).val)) => MergeRan

C12_Witness_NestedKeysFromBothSides ==
  /\ MergeRan
  /\ \E k \in KeysOf(ExistingBefore.map) \cap KeysOf(OverlayBefore.map) :
       LET e == GetItem(ExistingBefore.map, k)
           o == GetItem(OverlayBefore.map, k)
       IN /\ IsMap(e) /\ IsMap(o)
          /\ KeysOf(e.map) \ KeysOf(o.map) # {}
          /\ KeysOf(o.map) \ KeysOf(e.map) # {}
  /\ KeysOf(ExistingBefore.map) \ KeysOf(OverlayBefore.map) # {}

(* C13: deep_merge leaves both arguments as they were: after the call     *)
(* existing_content, with every dict nested in it, equals the decoded     *)
(* file, the overlay equals the decoded content, and the dict returned is *)
(* a new object.                                                          *)
C13_ArgumentsNotMutated ==
  MergeRan =>
    /\ PyEq(ReadObject(heap, existing_content), ExistingBefore)
    /\ PyEq(ReadObject(heap, changes), OverlayBefore)
    /\ merged \notin {existing_content, changes}

(* merge(x, y) as the code computes it, for two decoded dicts *)
MergeValue(x, y) ==
  LET call == MergeCall(x, y) IN ReadObject(call.heap, call.merged)

(* two overlays A then B were merged into the file that held D *)
TwoMerges ==
  /\ Len(merge_log) = 2
  /\ merge_log[1].branch = "merged" /\ IsMap(Loads(merge_log[1].before).val)
  /\ merge_log[2].branch = "merged" /\ merged # NoObject
  /\ merge_log[2].file = merge_log[1].file

(* C14: merge(merge(D, A), B) has every key of D, A and B; a key that B   *)
(* sets to a value that is not a mapping holds B's value, whatever D and  *)
(* A set it to; and for A and B without a common key it equals            *)
(* merge(merge(D, B), A).                                                 *)
C14_SecondOverlayWins ==
  TwoMerges =>
    LET D == Loads(merge_log[1].before).val
        A == Loads(merge_log[1].overlay).val
        B == Loads(merge_log[2].overlay).val
        R == ReadObject(heap, merged)
    IN /\ PyEq(Loads(merge_log[2].before).val, MergeValue(D, A))
       /\ KeysOf(R.map) = KeysOf(D.map) \cup KeysOf(A.map) \cup KeysOf(B.map)
       /\ \A k \in KeysOf(B.map) :
            IsLeaf(GetItem(B.map, k)) => GetItem(R.map, k) = GetItem(B.map, k)
       /\ KeysOf(A.map) \cap KeysOf(B.map) = {} =>
            PyEq(R, MergeValue(MergeValue(D, B), A))

C14_Witness_DisjointOverlays ==
  /\ TwoMerges
  /\ LET D == Loads(merge_log[1].before).val
         A == Loads(merge_log[1].overlay).val
         B == Loads(merge_log[2].overlay).val
     IN /\ KeysOf(A.map) # {} /\ KeysOf(B.map) # {}
        /\ KeysOf(A.map) \cap KeysOf(B.map) = {}
        /\ \E k \in KeysOf(B.map) \cap KeysOf(D.map) :
             /\ IsLeaf(GetItem(B.map, k))
             /\ GetItem(B.map, k) # GetItem(D.map, k)

(* ---------------------------------------------------------------------- *)
(* Properties of _apply_changes                                           *)
(* ---------------------------------------------------------------------- *)
Ops == solution.changes

(* the tree after the first n changes of the list, from the tree that     *)
(* _apply_changes was called on                                           *)
RECURSIVE TreeAfterOps(_, _)
TreeAfterOps(t, ops) ==
  IF ops = <<>> THEN t ELSE TreeAfterOps(ApplyOne(t, Head(ops)).tree, Tail(ops))

TreeAt(n) == TreeAfterOps(apply_trace.before, Take(Ops, n))

(* the positions of the list the loop reached, and those it completed *)
Reached == 1..Min(applied + 1, Len(Ops))

Completed == 1..applied

(* Modify of an existing JSON config file *)
ConfigModify(i) ==
  /\ Ops[i].action = "modify"
  /\ IsJsonConfig(Ops[i].file)
  /\ TreeAt(i - 1)[Ops[i].file] # FileAbsent
  /\ Ops[i].content # BadContent

(* ... that holds a JSON object, with an overlay that is a JSON object *)
MergeableModify(i) ==
  /\ ConfigModify(i)
  /\ Loads(TreeAt(i - 1)[Ops[i].file]).ok /\ IsMap(Loads(TreeAt(i - 1)[Ops[i].file]).val)
  /\ Loads(Ops[i].content).ok /\ IsMap(Loads(Ops[i].content).val)

(* C15: after Modify of an existing JSON config file that holds an object *)
(* with an overlay that is a JSON object, the file decodes to             *)
(* merge(existing, overlay), and every key of the existing document that  *)
(* the overlay does not mention is still there with its value.            *)
C15_ConfigModifyMerges ==
  apply_trace.called =>
    \A i \in Reached :
      MergeableModify(i) =>
        LET old == Loads(TreeAt(i - 1)[Ops[i].file]).val
            new == Loads(Ops[i].content).val
            now == Loads(TreeAt(i)[Ops[i].file])
        IN /\ i \in Completed
           /\ now.ok
           /\ PyEq(now.val, MergeValue(old, new))
           /\ \A k \in KeysOf(old.map) \ KeysOf(new.map) :
                HasKey(now.val.map, k) /\ GetItem(now.val.map, k) = GetItem(old.map, k)

(* C16: Modify of an existing JSON config file with an overlay that is    *)
(* not valid JSON does not fail: the file then holds the overlay text     *)
(* verbatim, the loop goes on, and alone in the list it makes             *)
(* _apply_changes return true.                                            *)
C16_InvalidOverlayReplacesFile ==
  apply_trace.called =>
    /\ \A i \in Reached :
         (ConfigModify(i) /\ ~Loads(Ops[i].content).ok) =>
           /\ i \in Completed
           /\ TreeAt(i)[Ops[i].file] = Ops[i].content
    /\ (Len(Ops) = 1 /\ ConfigModify(1) /\ ~Loads(Ops[1].content).ok) =>
         /\ apply_trace.ok
         /\ apply_trace.after[Ops[1].file] = Ops[1].content

C16_Witness_BrokenOverlayWritten ==
  /\ apply_trace.called
  /\ apply_trace.ok
  /\ Len(Ops) = 2
  /\ ConfigModify(1)
  /\ ~Loads(Ops[1].content).ok
  /\ Ops[2].file # Ops[1].file
  /\ apply_trace.after[Ops[1].file] = Ops[1].content
  /\ apply_trace.before[Ops[1].file] # Ops[1].content

(* a Delete, or a Modify of a file that is no JSON config, whose target   *)
(* does not exist when the loop comes to it                               *)
AbsentTarget(i) ==
  /\ TreeAt(i - 1)[Ops[i].file] = FileAbsent
  /\ \/ Ops[i].action = "delete"
     \/ Ops[i].action = "modify" /\ ~IsJsonConfig(Ops[i].file)

(* C17: Delete of a path that does not exist, and Modify of a non-config  *)
(* path that does not exist, leave the tree as it is (the file is not     *)
(* created), do not raise and do not stop the loop; a list of such        *)
(* changes only makes _apply_changes return true with the tree unchanged. *)
C17_AbsentTargetSkipped ==
  apply_trace.called =>
    /\ \A i \in Reached :
         AbsentTarget(i) =>
           /\ i \in Completed
           /\ TreeAt(i) = TreeAt(i - 1)
           /\ i < Len(Ops) => (i + 1) \in Reached
    /\ (\A i \in 1..Len(Ops) : apply_trace.before[Ops[i].file] = FileAbsent
                               /\ \/ Ops[i].action = "delete"
                                  \/ Ops[i].action = "modify" /\ ~IsJsonConfig(Ops[i].file)) =>
         /\ apply_trace.ok
         /\ apply_trace.after = apply_trace.before
         /\ applied = Len(Ops)

C17_Witness_SkipThenCreate ==
  /\ apply_trace.called
  /\ apply_trace.ok
  /\ Len(Ops) = 2
  /\ Ops[1].action = "modify"
  /\ Ops[1].content # BadContent
  /\ AbsentTarget(1)
  /\ Ops[2].action = "create"
  /\ apply_trace.after[Ops[1].file] = FileAbsent
  /\ apply_trace.after[Ops[2].file] = Ops[2].content
  /\ apply_trace.before[Ops[2].file] # Ops[2].content

(* change i raises when the loop comes to it *)
Raises(i) == ApplyOne(TreeAt(i - 1), Ops[i]).raised

(* C18: _apply_changes goes through the list in order and returns true   *)
(* if and only if no change raised.  When change k raises, the changes    *)
(* before k stay applied in the tree it leaves, the changes after k are   *)
(* not attempted, it returns false, and the cycle returns changes_failed  *)
(* without running tests or committing.                                   *)
C18_FirstRaiseStopsApply ==
  apply_trace.called =>
    /\ apply_trace.after = TreeAt(applied)
    /\ \A i \in Completed : ~Raises(i)
    /\ apply_trace.ok <=> applied = Len(Ops)
    /\ ~apply_trace.ok =>
         /\ Raises(applied + 1)
         /\ pc = "done"
         /\ result.status = "changes_failed"
         /\ "test" \notin Range(stages)
         /\ test_outcome = "none"
         /\ NothingPublished
         /\ ~branch_created /\ ~committed
    /\ apply_trace.ok => pc # "apply" /\ result.status # "changes_failed"

C18_Witness_SecondChangeRaises ==
  /\ apply_trace.called
  /\ ~apply_trace.ok
  /\ Len(Ops) = 2
  /\ applied = 1
  /\ apply_trace.after # apply_trace.before
  /\ result.status = "changes_failed"

(* ---------------------------------------------------------------------- *)
(* Properties of the issue synthesizer                                    *)
(* ---------------------------------------------------------------------- *)
(* the rejection rules, on the reply the oracle gave *)
RejectedByRule(reply) ==
  \/ reply.kind \in {"garbage", "not_object"}
  \/ /\ reply.kind = "json"
     /\ \/ reply.no_task
        \/ ~reply.title
        \/ ~reply.body
        \/ reply.confidence = "low"
        \/ reply.complexity = "complex"

(* C19: when the oracle's reply carries the no-suitable-task signal, has  *)
(* no title or no body, has confidence low or estimated_complexity        *)
(* complex, or does not parse as structured data, synthesize returns None *)
(* and the remote has the labels and the work items it had before.        *)
C19_RejectedReplyCreatesNothing ==
  (synth_trace.called /\ synth_trace.backlog /\ RejectedByRule(synth_trace.reply)) =>
    /\ synth_trace.returned = NoIssue
    /\ remote_labels = synth_trace.labels_before
    /\ remote_issues = synth_trace.issues_before
    /\ result.status = "no_work"

C19_Witness_ComplexTaskRejected ==
  /\ synth_trace.called
  /\ synth_trace.backlog
  /\ synth_trace.labels_ok
  /\ synth_trace.reply.kind = "json"
  /\ synth_trace.reply.complexity = "complex"
  /\ ~synth_trace.reply.no_task
  /\ synth_trace.reply.title /\ synth_trace.reply.body
  /\ synth_trace.reply.confidence # "low"
  /\ synth_trace.returned = NoIssue
  /\ L_autonomous_created \notin LoweredNames(remote_labels)

(* the call got as far as _ensure_labels_exist and create_issue worked *)
IssueSynthesized == synth_trace.called /\ synth_trace.returned # NoIssue

Requested == Range(RequestedLabels(synth_trace.reply))

(* a requested label the remote held before the call, in some casing *)
HeldBefore(l) == Lower(l) \in LoweredNames(synth_trace.labels_before)

(* C20: a label whose creation the remote refuses stops nothing: the work *)
(* item is created, and it carries, of the requested labels, those the    *)
(* remote already held (in the remote's casing) and those that were       *)
(* created; every requested label that could be created is in the remote  *)
(* afterwards.                                                            *)
C20_LabelFailureDoesNotAbort ==
  /\ (/\ synth_trace.called /\ synth_trace.backlog /\ synth_trace.labels_ok
      /\ synth_trace.issue_ok
      /\ ~RejectedByRule(synth_trace.reply) /\ synth_trace.reply.kind = "json")
     => IssueSynthesized
  /\ IssueSynthesized =>
       LET created == { l \in Requested : ~HeldBefore(l) /\ l \in remote_labels }
       IN /\ synth_trace.returned.labels =
               { n \in synth_trace.labels_before : \E l \in Requested : Lower(l) = Lower(n) }
               \cup created
          /\ \A l \in Requested :
               (~HeldBefore(l) /\ l \notin synth_trace.failing) =>
                 Lower(l) \in LoweredNames(remote_labels)
          /\ \A l \in Requested \cap synth_trace.failing :
               ~HeldBefore(l) => l \notin remote_labels
          /\ synth_trace.labels_before \subseteq remote_labels

C20_Witness_OneLabelRefused ==
  /\ IssueSynthesized
  /\ \E l \in Requested : l \in synth_trace.failing /\ ~HeldBefore(l)
  /\ \E l \in Requested : ~HeldBefore(l) /\ l \in synth_trace.returned.labels
  /\ \E l \in Requested : HeldBefore(l) /\ l \notin synth_trace.returned.labels
  /\ Cardinality(synth_trace.returned.labels) = 2

(* ---------------------------------------------------------------------- *)
(* Properties of the synthesized issue's labels                           *)
(* ---------------------------------------------------------------------- *)
CarriesAutonomousCreated(issue) ==
  \E l \in issue.labels : Lower(l) = L_autonomous_created

(* C21: every work item that synthesize creates and returns carries the   *)
(* label autonomous-created, whatever label list the oracle's reply       *)
(* requested, a list that omits it and the empty list included.           *)
C21_SynthesizedCarriesAutonomousCreated ==
  synth_trace.returned # NoIssue => CarriesAutonomousCreated(synth_trace.returned)

(* ---------------------------------------------------------------------- *)
(* The lines that decode an oracle reply, exercised alone                 *)
(* ---------------------------------------------------------------------- *)
(* the token for a run of three backquotes *)
Fence == "<fence>"

JsonTag == "json"

(* str.strip() *)
RECURSIVE StripEnd(_)
StripEnd(ts) ==
  IF ts # <<>> /\ ts[Len(ts)] \in Whitespace THEN StripEnd(SubSeq(ts, 1, Len(ts) - 1)) ELSE ts

Strip(ts) == StripEnd(SkipWs(ts))

(* re.sub of line 310: an opening fence at the start, a json tag after it  *)
(* and one newline after that are removed                                 *)
StripFenceStart(ts) ==
  LET a == Tail(ts)
      b == IF a # <<>> /\ Head(a) = JsonTag THEN Tail(a) ELSE a
  IN IF b # <<>> /\ Head(b) = "\n" THEN Tail(b) ELSE b

(* re.sub of line 311: a fence at the end and one newline before it are   *)
(* removed; the end is the end of the text, or the place before a newline *)
(* that ends it                                                           *)
StripFenceEnd(ts) ==
  LET n == Len(ts)
      cut(k) == (* the fence at position k and one newline before it *)
        IF k > 1 /\ ts[k - 1] = "\n" THEN k - 2 ELSE k - 1
  IN IF n >= 1 /\ ts[n] = Fence THEN SubSeq(ts, 1, cut(n))
     ELSE IF n >= 2 /\ ts[n] = "\n" /\ ts[n - 1] = Fence
          THEN SubSeq(ts, 1, cut(n - 1)) \o <<"\n">>
          ELSE ts

(* lines 305-311 and 828-832: the fences go only if the text starts with one *)
Unfenced(text) ==
  LET t == Strip(text)
  IN IF t # <<>> /\ Head(t) = Fence THEN StripFenceEnd(StripFenceStart(t)) ELSE t

(* lines 313 and 837: json.loads of what is left *)
DecodeReply(text) == Loads(Unfenced(text))

(* the decoding lines as a step of their own *)
ParseResponse ==
  /\ pc = "parse"
  /\ decoded' = DecodeReply(response_text)
  /\ pc' = "parsed"
  /\ UNCHANGED <<cliVars, response_text, loadVars, clone_log, docs_outcome, mergeVars, apply_trace,
                 synth_trace, project, cache, clone_path, remoteVars, selectVars, workVars,
                 gitVars, stages, result, raised>>

(* replies: prose, an opening fence, a payload, a closing fence, prose *)
LeadIns == { <<>>, <<" ">>, <<"Here", " ", "it", " ", "is", "\n">> }

Trailers == { <<>>, <<"\n">>, <<"\n", "Done", ".">> }

OpeningFences ==
  { <<>>, <<Fence>>, <<Fence, "\n">>, <<Fence, JsonTag>>, <<Fence, JsonTag, "\n">>,
    <<Fence, "js", "\n">> }

ClosingFences == { <<>>, <<Fence>>, <<"\n", Fence>> }

ReplyDocs == { Map(<<>>), PackageDoc, OverlayDoc }

Payloads ==
  { Dumps(v) : v \in ReplyDocs } \cup { Compact(v) : v \in ReplyDocs }
  \cup { BrokenJson, ListText, <<"no", " ", "task">> }

Replies ==
  { lead \o open \o body \o close \o trail :
      lead \in LeadIns, open \in OpeningFences, body \in Payloads,
      close \in ClosingFences, trail \in Trailers }

InitParse ==
  /\ pc = "parse"
  /\ project \in {"whatsapp"}
  /\ cache = "absent"
  /\ clone_path = "none"
  /\ CalledDirectly
  /\ response_text \in Replies
  /\ decoded = NotDecoded
  /\ BeforeClone
  /\ remote_issues = <<>>
  /\ remote_labels = {}
  /\ issues = <<>>
  /\ suitable_issues = <<>>
  /\ top_issues = <<>>
  /\ shown = <<>>
  /\ oracle_reply = NoOracle
  /\ selected_issue = NoIssue
  /\ workspace = "absent"
  /\ ws_prepared = FALSE
  /\ tree = EmptyTree
  /\ gen_outcome = "none"
  /\ solution = NoSolution
  /\ applied = 0
  /\ test_outcome = "none"
  /\ test_passed = FALSE
  /\ branch_created = FALSE
  /\ committed = FALSE
  /\ pushed = FALSE
  /\ pr_created = FALSE
  /\ docs_updated = FALSE
  /\ stages = <<>>
  /\ synth_trace = NoSynth
  /\ apply_trace = NoApply
  /\ heap = <<>>
  /\ existing_content = NoObject
  /\ changes = NoObject
  /\ merged = NoObject
  /\ merge_log = <<>>
  /\ result = NoResult
  /\ raised = FALSE

NextParse == ParseResponse

SpecParse == InitParse /\ [][NextParse]_vars

(* the span from the first '{' through the last '}' of a text *)
HasBraces(text) ==
  \E i, j \in 1..Len(text) : i < j /\ text[i] = "{" /\ text[j] = "}"

BraceSpan(text) ==
  LET first == CHOOSE i \in 1..Len(text) :
                 text[i] = "{" /\ \A k \in 1..(i - 1) : text[k] # "{"
      last == CHOOSE j \in 1..Len(text) :
                text[j] = "}" /\ \A k \in (j + 1)..Len(text) : text[k] # "}"
  IN SubSeq(text, first, last)

SpanDecodes(text) == HasBraces(text) /\ Loads(BraceSpan(text)).ok

Before(text) ==
  SubSeq(text, 1, (CHOOSE i \in 1..Len(text) :
                     text[i] = "{" /\ \A k \in 1..(i - 1) : text[k] # "{") - 1)

After(text) ==
  SubSeq(text, (CHOOSE j \in 1..Len(text) :
                  text[j] = "}" /\ \A k \in (j + 1)..Len(text) : text[k] # "}") + 1, Len(text))

(* no fence, or an opening fence with or without the json tag and a       *)
(* closing fence                                                          *)
FenceWraps ==
  { <<(<<>>), (<<>>)>> }
  \cup { <<open, close>> : open \in OpeningFences \ { <<>>, <<Fence, "js", "\n">> },
                          close \in ClosingFences \ { <<>> } }

(* one object, prose before and after it or not, a fence around it or not *)
ClaimedShape(text) ==
  /\ SpanDecodes(text)
  /\ IsMap(Loads(BraceSpan(text)).val)
  /\ \E lead \in LeadIns, trail \in Trailers, wrap \in FenceWraps :
       /\ Before(text) = lead \o wrap[1]
       /\ After(text) = wrap[2] \o trail

(* C22: for every reply that is one valid JSON object, with or without    *)
(* prose before and after it and with or without a fence (tagged json or  *)
(* not) around it, the decoding lines return that object, the one the     *)
(* span from the first '{' through the last '}' decodes to.               *)
C22_ParserDecodesEmbeddedObject ==
  (pc = "parsed" /\ ClaimedShape(response_text))
    => (decoded.ok /\ decoded.val = Loads(BraceSpan(response_text)).val)

(* ---------------------------------------------------------------------- *)
(* Properties of the two payload shapes                                   *)
(* ---------------------------------------------------------------------- *)
(* the decoded payload names file operations, in either shape *)
NamesFileOperations ==
  gen_outcome = "object" /\ (solution.has_changes \/ solution.flat.present)

(* C23: a decoded payload in the flat {files_to_create, files_to_modify,  *)
(* tests} shape is accepted like one in the {changes: [...]} shape: once  *)
(* the cycle is past generation with a payload of either shape, its file  *)
(* operations have reached the Change Applicator.                         *)
C23_BothShapesReachApplicator ==
  (NamesFileOperations /\ pc \notin {"generate", "apply"}) => apply_trace.called

(* ---------------------------------------------------------------------- *)
(* Properties of the planning-document cache                              *)
(* ---------------------------------------------------------------------- *)
(* C24: the cache is reused across cycles: when a cycle in which the      *)
(* clone step returned a cached clone has completed, with any result, the *)
(* cache entry of the repository is still a complete clone, so that the   *)
(* next cycle for the repository takes the update path of _quick_clone    *)
(* and not the first-time clone.                                          *)
C24_CacheKeptAfterCycle ==
  (pc = "done" /\ clone_log.returned) => cache = "complete"

(* ---------------------------------------------------------------------- *)
(* _quick_clone exercised alone, with a failure at any of its steps       *)
(* ---------------------------------------------------------------------- *)
InitClone ==
  /\ pc = "quick_clone"
  /\ project \in Projects
  /\ cache \in {"absent", "complete"}
  /\ clone_path = "none"
  /\ CalledDirectly
  /\ NothingParsed
  /\ BeforeClone
  /\ remote_issues \in { MkIssues(ls) : ls \in CycleLabelLists }
  /\ \E extra \in { {}, {U_Autonomous_Created} } :
       remote_labels = extra \cup UNION { remote_issues[i].labels : i \in 1..Len(remote_issues) }
  /\ issues = <<>>
  /\ suitable_issues = <<>>
  /\ top_issues = <<>>
  /\ shown = <<>>
  /\ oracle_reply = NoOracle
  /\ selected_issue = NoIssue
  /\ workspace \in {"absent", "ready"}
  /\ ws_prepared = FALSE
  /\ tree = IF workspace = "ready" THEN ClonedTree ELSE EmptyTree
  /\ gen_outcome = "none"
  /\ solution = NoSolution
  /\ applied = 0
  /\ test_outcome = "none"
  /\ test_passed = FALSE
  /\ branch_created = FALSE
  /\ committed = FALSE
  /\ pushed = FALSE
  /\ pr_created = FALSE
  /\ docs_updated = FALSE
  /\ stages = <<"get_repo">>
  /\ synth_trace = NoSynth
  /\ apply_trace = NoApply
  /\ heap = <<>>
  /\ existing_content = NoObject
  /\ changes = NoObject
  /\ merged = NoObject
  /\ merge_log = <<>>
  /\ result = NoResult
  /\ raised = FALSE

NextClone ==
  \E fail_at \in 0..Len(FirstCloneSteps), kind \in {"fail", "timeout"} : QuickClone(fail_at, kind)

SpecClone == InitClone /\ [][NextClone]_vars

CloneCalled == clone_log.branch # "none"

(* C25: after any call of the cache clone step, failed or not, the cache  *)
(* entry of the repository is either absent or a complete clone: a        *)
(* first-time clone that fails or times out at any of its steps leaves no *)
(* entry and the failure leaves the call, and an update of an existing    *)
(* entry, failed or not, leaves a complete clone in place and returns it. *)
C25_CacheEntryAbsentOrComplete ==
  CloneCalled =>
    /\ cache \in {"absent", "complete"}
    /\ (clone_log.branch = "first" /\ clone_log.fail_at > 0)
         => (cache = "absent" /\ ~clone_log.returned /\ pc = "done" /\ result.status = "error")
    /\ (clone_log.branch = "first" /\ clone_log.fail_at = 0)
         => (cache = "complete" /\ clone_log.returned)
    /\ clone_log.branch = "update"
         => (clone_log.before = "complete" /\ cache = "complete" /\ clone_log.returned
             /\ pc = "load_priorities")

(* the fetch of a first-time clone timed out, after the directory had     *)
(* been set up                                                            *)
C25_Witness_FetchTimedOut ==
  /\ clone_log.branch = "first"
  /\ clone_log.fail_at > 0
  /\ FirstCloneSteps[clone_log.fail_at] = "git fetch"
  /\ clone_log.kind = "timeout"
  /\ EntryAtFailure(clone_log.fail_at) = "partial"
  /\ cache = "absent"
  /\ result.error = "clone timed out"

(* ---------------------------------------------------------------------- *)
(* The command line: main, the cycle it starts, and the exit              *)
(* ---------------------------------------------------------------------- *)
ScriptName == <<"r", "u", "n">>

U_WhatsApp == <<"W", "h", "a", "t", "s", "A", "p", "p">>

A_other == <<"o", "t", "h", "e", "r">>

CommandLines ==
  { <<ScriptName>>, <<ScriptName, <<>>>>, <<ScriptName, A_other>>,
    <<ScriptName, A_whatsapp>>, <<ScriptName, U_WhatsApp>>, <<ScriptName, A_healthos>>,
    <<ScriptName, A_whatsapp_analyser>>, <<ScriptName, A_healthos, A_other>> }

EnvValues == { EnvUnset, <<>>, EnvSet }

InitCli ==
  /\ pc = "main"
  /\ project = NoProject
  /\ github_token \in EnvValues
  /\ anthropic_api_key \in EnvValues
  /\ argv \in CommandLines
  /\ developer = FALSE
  /\ cycles_run = 0
  /\ exit_code = NotExited
  /\ cache = "absent"
  /\ clone_path = "none"
  /\ NothingParsed
  /\ BeforeClone
  /\ remote_issues \in { <<>>, MkIssues(<<{L_bug}>>) }
  /\ remote_labels = UNION { remote_issues[i].labels : i \in 1..Len(remote_issues) }
  /\ issues = <<>>
  /\ suitable_issues = <<>>
  /\ top_issues = <<>>
  /\ shown = <<>>
  /\ oracle_reply = NoOracle
  /\ selected_issue = NoIssue
  /\ workspace = "absent"
  /\ ws_prepared = FALSE
  /\ tree = EmptyTree
  /\ gen_outcome = "none"
  /\ solution = NoSolution
  /\ applied = 0
  /\ test_outcome = "none"
  /\ test_passed = FALSE
  /\ branch_created = FALSE
  /\ committed = FALSE
  /\ pushed = FALSE
  /\ pr_created = FALSE
  /\ docs_updated = FALSE
  /\ stages = <<>>
  /\ synth_trace = NoSynth
  /\ apply_trace = NoApply
  /\ heap = <<>>
  /\ existing_content = NoObject
  /\ changes = NoObject
  /\ merged = NoObject
  /\ merge_log = <<>>
  /\ result = NoResult
  /\ raised = FALSE

NextCli == Main \/ Next \/ Exit

SpecCli == InitCli /\ [][NextCli]_vars

(* a credential is missing, there is no project argument, or the argument *)
(* in lower case is none of the three names                               *)
Refused ==
  \/ github_token \in {EnvUnset, <<>>}
  \/ anthropic_api_key \in {EnvUnset, <<>>}
  \/ Len(argv) < 2
  \/ Lower(argv[2]) \notin {A_whatsapp, A_healthos, A_whatsapp_analyser}

CyclesStarted == Cardinality({ i \in 1..Len(stages) : stages[i] = "get_repo" })

FullDoc == [i \in 1..PriorityBudget |-> "x"]

LongDoc == [i \in 1..(PriorityBudget + 1) |-> IF i > PriorityBudget THEN "!" ELSE "x"]

BacklogDocs == { FileAbsent, Unreadable, <<>>, ShortDoc, FullDoc, LongDoc }

OtherDocs == { FileAbsent, Unreadable, ShortDoc }

(* the documents a clone of the project's repository may hold *)
DocsOf(proj) ==
  LET listed == { FixedPlanningFiles(proj)[i].path : i \in 1..Len(FixedPlanningFiles(proj)) }
  IN { [fixed |-> f, releases |-> r] :
         f \in { g \in [PlanningPaths -> BacklogDocs \cup OtherDocs] :
                   /\ \A p \in PlanningPaths \ listed : g[p] = FileAbsent
                   /\ \A p \in listed \ {"BACKLOG.md"} : g[p] \in OtherDocs },
         r \in IF proj = "whatsapp" THEN [1..MaxReleaseSpecs -> OtherDocs] ELSE {NoReleases} }

InitLoad ==
  /\ pc = "load_priorities"
  /\ project \in Projects
  /\ cache = "complete"
  /\ clone_path = "first"
  /\ CalledDirectly
  /\ NothingParsed
  /\ docs \in DocsOf(project)
  /\ priorities = NotLoaded
  /\ clone_log = Cloned
  /\ docs_outcome = "none"
  /\ remote_issues = <<>>
  /\ remote_labels = {}
  /\ issues = <<>>
  /\ suitable_issues = <<>>
  /\ top_issues = <<>>
  /\ shown = <<>>
  /\ oracle_reply = NoOracle
  /\ selected_issue = NoIssue
  /\ workspace = "absent"
  /\ ws_prepared = FALSE
  /\ tree = EmptyTree
  /\ gen_outcome = "none"
  /\ solution = NoSolution
  /\ applied = 0
  /\ test_outcome = "none"
  /\ test_passed = FALSE
  /\ branch_created = FALSE
  /\ committed = FALSE
  /\ pushed = FALSE
  /\ pr_created = FALSE
  /\ docs_updated = FALSE
  /\ stages = <<"get_repo", "quick_clone">>
  /\ synth_trace = NoSynth
  /\ apply_trace = NoApply
  /\ heap = <<>>
  /\ existing_content = NoObject
  /\ changes = NoObject
  /\ merged = NoObject
  /\ merge_log = <<>>
  /\ result = NoResult
  /\ raised = FALSE

NextLoad == LoadPriorities

SpecLoad == InitLoad /\ [][NextLoad]_vars

Loaded == priorities # NotLoaded

CouldBeRead(doc) == doc # FileAbsent /\ doc # Unreadable

(* the fixed list of the project: label and document, in the list's order *)
FixedListed ==
  LET fixed == IF project = "whatsapp" THEN WhatsappPlanningFiles ELSE HealthosPlanningFiles
  IN [i \in 1..Len(fixed) |-> [name |-> fixed[i].name, doc |-> docs.fixed[fixed[i].path]]]

(* for whatsapp, the release specs docs/roadmap/v*.md that exist: the two *)
(* with the highest names, highest first                                 *)
ReleasesListed ==
  LET present == { i \in 1..Len(docs.releases) : docs.releases[i] # FileAbsent }
      newest == { i \in present : Cardinality({ j \in present : j > i }) < 2 }
      nth(k) == CHOOSE i \in newest : Cardinality({ j \in newest : j > i }) = k - 1
  IN IF project = "whatsapp"
     THEN [k \in 1..Cardinality(newest) |->
             [name |-> <<"Release: ", "v", Digits[nth(k) + 1], ".md">>, doc |-> docs.releases[nth(k)]]]
     ELSE <<>>

(* the section of a document: its label, and its first 2000 characters at *)
(* most                                                                   *)
SectionOf(file) ==
  <<"## ">> \o file.name \o <<"\n">>
  \o SubSeq(file.doc, 1, IF Len(file.doc) > PriorityBudget THEN PriorityBudget ELSE Len(file.doc))
  \o <<"\n">>

RECURSIVE LengthBefore(_, _)
(* the length of the first k sections and of the separator after each *)
LengthBefore(files, k) ==
  IF k = 0 THEN 0 ELSE LengthBefore(files, k - 1) + Len(SectionOf(files[k])) + 1

(* priorities is the sentinel if no file of the list could be read, and   *)
(* otherwise the sections of the files that could, in the list's order,   *)
(* with a separator between two sections                                   *)
LoadedFrom(list) ==
  LET files == SelectSeq(list, LAMBDA f : CouldBeRead(f.doc))
      n == Len(files)
  IN /\ (priorities = NoPrioritiesFound) <=> (n = 0)
     /\ n > 0 =>
          /\ Len(priorities) = LengthBefore(files, n) - 1
          /\ \A k \in 1..n :
               /\ SubSeq(priorities, LengthBefore(files, k - 1) + 1,
                         LengthBefore(files, k) - 1) = SectionOf(files[k])
               /\ Len(SectionOf(files[k])) <= Len(files[k].name) + PriorityBudget + 3
               /\ k < n => priorities[LengthBefore(files, k)] = "\n\n"

(* C27 as stated: the loader visits a fixed per-project list of planning  *)
(* documents in a fixed order, skips every missing or unreadable file,    *)
(* contributes at most 2000 characters of each file as one labeled        *)
(* section, returns the concatenation, and returns the sentinel exactly   *)
(* when no listed file could be read.                                     *)
C27_SectionsOfFixedList ==
  Loaded => LoadedFrom(FixedListed)

(* C27 amended: the list is the fixed list of the project followed, for   *)
(* whatsapp, by the at most two release specs docs/roadmap/v*.md with the *)
(* highest names; the rest as stated.                                     *)
C27_SectionsOfFixedListAndReleases ==
  Loaded => LoadedFrom(FixedListed \o ReleasesListed)

(* a long backlog cut at the budget, an unreadable and a missing file     *)
(* skipped, and three release specs of which the two newest are read      *)
C27_Witness_CutSkippedAndReleases ==
  /\ Loaded
  /\ project = "whatsapp"
  /\ docs.fixed["BACKLOG.md"] = LongDoc
  /\ docs.fixed["ACCEPTANCE_CRITERIA_STATUS.md"] = Unreadable
  /\ docs.fixed["docs/roadmap/REVISED_Technical_Release_Sequence_Mobile_First_20251026.md"] = FileAbsent
  /\ \A i \in 1..Len(docs.releases) : docs.releases[i] = ShortDoc
  /\ Len(docs.releases) >= 3
  /\ priorities # NoPrioritiesFound
  /\ Len(priorities) = (PriorityBudget + 4) + 2 * (1 + Len(ShortDoc) + 7)

(* ---------------------------------------------------------------------- *)
(* Order of the stages and the result of the cycle                        *)
(* ---------------------------------------------------------------------- *)
CycleOrder ==
  <<"select", "prepare_workspace", "generate", "apply", "test", "format",
    "commit_push", "create_pr", "update_docs">>

(* the stages of the order that ran so far, in the order they ran *)
StagesRun == SelectSeq(stages, LAMBDA s : s \in Range(CycleOrder))

(* a stage that ran did not do what the next stage needs *)
StageFailed(s) ==
  CASE s = "select" -> selected_issue = NoIssue
    [] s = "prepare_workspace" -> ~ws_prepared
    [] s = "generate" -> solution.status # "success"
    [] s = "apply" -> ~apply_trace.ok
    [] s = "test" -> ~test_passed
    [] s = "commit_push" -> ~pushed
    [] s = "create_pr" -> ~pr_created
    [] s = "update_docs" -> docs_outcome = "raise"
    [] OTHER -> FALSE

CycleStatuses ==
  {"no_work", "no_suitable_issue", "generation_failed", "changes_failed",
   "tests_failed", "pr_created", "error"}

(* C29: every result of run_development_cycle has one of the seven        *)
(* statuses; tasks_completed is 1 exactly when the status is pr_created   *)
(* and 0 otherwise; status pr_created is returned only if a pull request  *)
(* was created in the cycle; and a cycle whose pull request was created   *)
(* and whose doc-update git commands exited non-zero still returns        *)
(* pr_created.                                                            *)
C29_StatusAndTasksCompleted ==
  pc = "done" =>
    /\ result.status \in CycleStatuses
    /\ result.tasks_completed \in {0, 1}
    /\ (result.tasks_completed = 1) <=> (result.status = "pr_created")
    /\ result.status = "pr_created" => pr_created
    /\ (pr_created /\ docs_outcome = "nonzero") => result.status = "pr_created"

(* the pull request was created, git of the doc update exited non-zero *)
C29_Witness_DocUpdateNonZero ==
  /\ pc = "done"
  /\ pr_created
  /\ docs_outcome = "nonzero"
  /\ ~docs_updated
  /\ result.status = "pr_created"
  /\ result.tasks_completed = 1

(* ---------------------------------------------------------------------- *)
(* Synthesis followed by selection                                        *)
(* ---------------------------------------------------------------------- *)
TimesRun(stage) == Cardinality({ i \in 1..Len(stages) : stages[i] = stage })

SelectionDecided == "select" \in Range(stages) /\ pc # "select_oracle"

(* C30: the synthesizer is called at most once in a cycle and only when   *)
(* the remote has no open work item; when it returns a work item W,       *)
(* selection returns W and the cycle never ends with no_suitable_issue,   *)
(* whatever labels the oracle requested for W; when it returns None the   *)
(* cycle ends with no_work without selection, workspace preparation or    *)
(* generation.                                                            *)
C30_SynthesizedItemIsSelected ==
  /\ TimesRun("synthesize") <= 1
  /\ synth_trace.called <=> (TimesRun("synthesize") = 1)
  /\ synth_trace.called => synth_trace.issues_before = <<>>
  /\ (synth_trace.called /\ synth_trace.returned # NoIssue) =>
       /\ SelectionDecided => selected_issue = synth_trace.returned
       /\ pc = "done" => result.status # "no_suitable_issue"
  /\ (synth_trace.called /\ synth_trace.returned = NoIssue) =>
       /\ pc = "done"
       /\ result.status = "no_work"
       /\ Range(stages) \cap {"select", "prepare_workspace", "generate"} = {}
====
